---- MODULE Spec2Model ----
(***************************************************************************)
(* A model of the pointer octree of the `space` crate                      *)
(* (src/src/octree/pointer.rs) over Morton keys (src/src/morton/mod.rs).   *)
(* The key width is scaled down: a key has DimBits octal digits instead of *)
(* 21 or 42; every digit is one level of the tree.                         *)
(***************************************************************************)
EXTENDS Integers, Sequences, FiniteSets, TLC

\* Number of levels (octal digits) of a Morton key in the model.
DimBits == 2
\* Largest digit value used by the keys that are fed to the tree.
MaxDigit == 1
\* Payloads are 1..MaxItem.
MaxItem == 2
\* Number of mutating calls (insert, remove) in one run.
MaxOps == 4
\* Capacity of the region cache handed to a fold iterator.
MaxCache == 8
\* Number of mutating calls in one run that is followed by traversals.
MaxTravOps == 2

\* Capacity of the region cache that invalidate_region_cache works on.
MaxRegionCache == 3

\* ------------------------------------------------------------------------
\* Morton keys
\* ------------------------------------------------------------------------
dim_bits == DimBits

used_bits == (8 ^ dim_bits) - 1

get_significant_bits(m, level) == m \div (8 ^ (dim_bits - level - 1))

get_level(m, level) == get_significant_bits(m, level) % 8

\* The keys handed to the tree: valid keys (no unused bit set) whose digits
\* are all at most MaxDigit.
Keys == {m \in 0..used_bits : \A l \in 0..(dim_bits - 1) : get_level(m, l) <= MaxDigit}

Items == 1..MaxItem

\* Option<T>::None for payloads.
NoItem == 0

\* The outcome of a call that ends in unreachable!() or panic!().
Unreachable == 0 - 1

\* ------------------------------------------------------------------------
\* enum Internal<T, M>
\* ------------------------------------------------------------------------
None == [tag |-> "None"]

Leaf(item, morton) == [tag |-> "Leaf", item |-> item, morton |-> morton]

Node(children) == [tag |-> "Node", children |-> children]

empty_node == Node([i \in 0..7 |-> None])

\* The slot a mutable reference obtained by following `path` points to.
RECURSIVE Slot(_, _)
Slot(node, path) ==
    IF path = <<>> THEN node ELSE Slot(node.children[Head(path)], Tail(path))

\* The tree after writing `new` through the reference that `path` denotes.
RECURSIVE Replace(_, _, _)
Replace(node, path, new) ==
    IF path = <<>> THEN new
    ELSE Node([node.children EXCEPT
                 ![Head(path)] = Replace(node.children[Head(path)], Tail(path), new)])

\* The fold_while descent shared by get, get_mut, insert and remove: the
\* accumulator is (reference, old_ix); it runs over i in 0..dim_bits.
RECURSIVE Descend(_, _, _, _, _)
Descend(node, path, old_ix, i, morton) ==
    IF i >= dim_bits THEN [path |-> path, level |-> old_ix]
    ELSE IF node.tag = "Node"
         THEN Descend(node.children[get_level(morton, i)],
                      Append(path, get_level(morton, i)), i, i + 1, morton)
         ELSE [path |-> path, level |-> old_ix]

\* The loop `for i in level + 1..M::dim_bits()` of insert, started on a fresh
\* empty node: the node it leaves behind and whether the two leaves were
\* placed (the loop returned from inside).
RECURSIVE SplitLoop(_, _, _, _, _)
SplitLoop(i, morton, item, dest_morton, dest_item) ==
    IF i >= dim_bits THEN [node |-> empty_node, placed |-> FALSE]
    ELSE IF get_level(morton, i) = get_level(dest_morton, i)
         THEN LET sub == SplitLoop(i + 1, morton, item, dest_morton, dest_item)
              IN  [node |-> Node([empty_node.children EXCEPT
                                    ![get_level(morton, i)] = sub.node]),
                   placed |-> sub.placed]
         ELSE [node |-> Node([empty_node.children EXCEPT
                                ![get_level(morton, i)] = Leaf(item, morton),
                                ![get_level(dest_morton, i)] = Leaf(dest_item, dest_morton)]),
               placed |-> TRUE]

\* PointerOctree::insert as a function of the tree and the count: the tree
\* and count it leaves, and whether it ended in unreachable!().
insert(t, c, morton, item) ==
    LET d == Descend(t, <<>>, 0, 0, morton)
        tree_part == Slot(t, d.path)
        split == SplitLoop(d.level + 1, morton, item, tree_part.morton, tree_part.item)
    IN  CASE tree_part.tag = "Leaf" /\ morton = tree_part.morton ->
                 [tree |-> Replace(t, d.path, Leaf(item, morton)), count |-> c,
                  panic |-> FALSE]
          [] tree_part.tag = "Leaf" /\ morton # tree_part.morton ->
                 [tree |-> Replace(t, d.path, split.node),
                  count |-> IF split.placed THEN c + 1 ELSE c,
                  panic |-> FALSE]
          [] tree_part.tag = "None" ->
                 [tree |-> Replace(t, d.path, Leaf(item, morton)), count |-> c + 1,
                  panic |-> FALSE]
          [] OTHER -> [tree |-> t, count |-> c, panic |-> TRUE]

\* PointerOctree::get as a function of the tree: the payload, NoItem, or
\* Unreachable when the descent ends on a Node.
get(t, morton) ==
    LET tree_part == Slot(t, Descend(t, <<>>, 0, 0, morton).path)
    IN  CASE tree_part.tag = "Leaf" ->
                 IF morton = tree_part.morton THEN tree_part.item ELSE NoItem
          [] tree_part.tag = "None" -> NoItem
          [] OTHER -> Unreachable

\* PointerOctree::remove as a function of the tree: the tree it leaves (the
\* slot the descent ends on is swapped with None before it is looked at) and
\* what it returns.
remove(t, morton) ==
    LET d == Descend(t, <<>>, 0, 0, morton)
        leaf == Slot(t, d.path)
    IN  [tree |-> Replace(t, d.path, None),
         ret |-> CASE leaf.tag = "Leaf" -> leaf.item
                   [] leaf.tag = "None" -> NoItem
                   [] OTHER -> Unreachable]

\* PointerOctree::len
len(c) == c

\* PointerOctree::is_empty
is_empty(c) == c = 0

\* InternalIter::next on the stack `nodes` (top of the stack = end of the
\* sequence): the stack it leaves and the pair it yields (<<>> for None).
RECURSIVE InternalIterNext(_)
InternalIterNext(nodes) ==
    IF nodes = <<>> THEN [nodes |-> <<>>, item |-> <<>>]
    ELSE LET top == nodes[Len(nodes)]
             popped == SubSeq(nodes, 1, Len(nodes) - 1)
             pushed == IF top.ix # 7
                       THEN Append(popped, [children |-> top.children, ix |-> top.ix + 1])
                       ELSE popped
             child == top.children[top.ix]
         IN  CASE child.tag = "Node" ->
                      InternalIterNext(Append(pushed, [children |-> child.children, ix |-> 0]))
               [] child.tag = "Leaf" ->
                      [nodes |-> pushed, item |-> <<child.morton, child.item>>]
               [] OTHER -> InternalIterNext(pushed)

\* Everything an InternalIter yields until next() returns None.
RECURSIVE InternalIterAll(_)
InternalIterAll(nodes) ==
    LET r == InternalIterNext(nodes)
    IN  IF r.item = <<>> THEN <<>> ELSE <<r.item>> \o InternalIterAll(r.nodes)

\* An iter that starts at the second child of the root Node.
iter_skip_first(t) ==
    CASE t.tag = "Node" -> InternalIterAll(<<[children |-> t.children, ix |-> 1]>>)
      [] t.tag = "Leaf" -> <<<<t.morton, t.item>>>>
      [] OTHER -> InternalIterAll(<<>>)

\* Internal::iter / PointerOctree::iter, run to the end: the sequence of
\* (morton, item) pairs.
iter(t) ==
    CASE t.tag = "Node" -> InternalIterAll(<<[children |-> t.children, ix |-> 0]>>)
      [] t.tag = "Leaf" -> <<<<t.morton, t.item>>>>
      [] OTHER -> InternalIterAll(<<>>)

\* ------------------------------------------------------------------------
\* Regions and folding
\* ------------------------------------------------------------------------
\* MortonRegion::base
base == [morton |-> 0, level |-> 0]

\* MortonRegion::enter
enter(region, i) ==
    [morton |-> region.morton + i * (8 ^ (dim_bits - region.level - 1)),
     level |-> region.level + 1]

\* The counting folder: gather gives 1, fold adds its inputs up.
gather(morton, item) == 1

RECURSIVE fold(_)
fold(sums) == IF sums = <<>> THEN 0 ELSE Head(sums) + fold(Tail(sums))

\* Option<Sum>::None
NoSum == 0 - 1

\* map.extend(once((region, sum))) on a region map kept as a set of entries.
extend(map, region, sum) ==
    {e \in map : e.region # region} \cup {[region |-> region, sum |-> sum]}

\* What a run of collect_fold has done so far: the output map, the number of
\* map.extend calls, the (region, key) of every gather call, the (region,
\* number of Sums) of every fold call that returned, and whether the run has panicked.
NewRun == [map |-> {}, extends |-> 0, gathers |-> <<>>, folds |-> <<>>, panic |-> FALSE]

\* Internal::collect_fold on `node` for `region`; collect_children is the
\* filter_map over 0..8 that fold consumes.  Result: the Option<Sum> and the
\* run.
RECURSIVE collect_fold(_, _, _)
RECURSIVE collect_children(_, _, _, _, _)
collect_fold(node, region, run) ==
    IF run.panic THEN [sum |-> NoSum, run |-> run]
    ELSE CASE node.tag = "Node" ->
                  IF region.level < dim_bits
                  THEN LET c == collect_children(node.children, region, 0, <<>>, run)
                           sum == fold(c.sums)
                       IN  IF c.run.panic THEN [sum |-> NoSum, run |-> c.run]
                           ELSE [sum |-> sum,
                                 run |-> [c.run EXCEPT
                                     !.map = extend(@, region, sum),
                                     !.extends = @ + 1,
                                     !.folds = Append(@, [region |-> region,
                                                          n |-> Len(c.sums)])]]
                  ELSE [sum |-> NoSum, run |-> [run EXCEPT !.panic = TRUE]]
           [] node.tag = "Leaf" ->
                  LET sum == gather(node.morton, node.item)
                  IN  [sum |-> sum,
                       run |-> [run EXCEPT
                           !.map = extend(@, region, sum),
                           !.extends = @ + 1,
                           !.gathers = Append(@, [region |-> region,
                                                  morton |-> node.morton])]]
           [] OTHER -> [sum |-> NoSum, run |-> run]

collect_children(children, region, i, sums, run) ==
    IF i > 7 \/ run.panic THEN [sums |-> sums, run |-> run]
    ELSE LET r == collect_fold(children[i], enter(region, i), run)
         IN  collect_children(children, region, i + 1,
                              IF r.sum = NoSum THEN sums ELSE Append(sums, r.sum),
                              r.run)

\* PointerOctree::collect_fold with the counting folder, as a function of the
\* tree.
CollectFoldRun(t) == collect_fold(t, base, NewRun)

\* ------------------------------------------------------------------------
\* The region cache (an LRU cache keyed by region) and the fold iterator
\* ------------------------------------------------------------------------
\* A cache is the sequence of its (region, sum) entries, least recently used
\* first.
CacheHas(cache, region) == \E k \in 1..Len(cache) : cache[k].region = region

CacheWithout(cache, region) == SelectSeq(cache, LAMBDA e : e.region # region)

\* A cache whose get_mut always misses.
CacheGet_always_miss(cache, region) == [sum |-> NoSum, cache |-> cache]

\* LruCache::get_mut: the Sum found (NoSum on a miss) and the cache with the
\* entry moved to the most recently used end.
CacheGet(cache, region) ==
    IF CacheHas(cache, region)
    THEN LET e == CHOOSE e \in {cache[k] : k \in 1..Len(cache)} : e.region = region
         IN  [sum |-> e.sum, cache |-> Append(CacheWithout(cache, region), e)]
    ELSE [sum |-> NoSum, cache |-> cache]

\* An insert that stores nothing.
CacheInsert_drop(cache, cap, region, sum) == cache

\* LruCache::insert with capacity `cap`: the least recently used entry is
\* dropped when the cache has grown past its capacity.
CacheInsert(cache, cap, region, sum) ==
    LET c == Append(CacheWithout(cache, region), [region |-> region, sum |-> sum])
    IN  IF Len(c) > cap THEN Tail(c) ELSE c

\* LruCache::remove
CacheRemove(cache, region) == CacheWithout(cache, region)

\* `morton << 3` on a key of 3 * dim_bits + 1 bits.
shl3(m) == (m * 8) % (2 * (8 ^ dim_bits))

\* The loop `while let Internal::None = children[choice] { choice += 1;
\* choice %= 8 }`: the index it stops on.  It is only entered here when some
\* child is not None; with 8 None children the loop never ends.
RECURSIVE FirstNonNone(_, _)
FirstNonNone(children, choice) ==
    IF children[choice].tag = "None"
    THEN FirstNonNone(children, (choice + 1) % 8)
    ELSE choice

AllNone(children) == \A i \in 0..7 : children[i].tag = "None"

\* Internal::sample: [hang, morton, item]; hang when a Node with 8 None
\* children is met.
RECURSIVE sample(_, _)
sample(node, morton) ==
    IF node.tag = "Node"
    THEN IF AllNone(node.children)
         THEN [hang |-> TRUE, morton |-> 0, item |-> NoItem]
         ELSE sample(node.children[FirstNonNone(node.children, get_level(morton, 0))],
                     shl3(morton))
    ELSE [hang |-> FALSE, morton |-> node.morton, item |-> node.item]

\* The state of one traversal by a FoldIter: its stack (top = end), the
\* explore predicate (explore(region) is region.level < explore), depth, the
\* values the rng is going to produce (taken in turn, cyclically), the cache
\* and its capacity; and what the traversal has done: the pairs yielded, the
\* explore, gather and fold calls, and whether it hangs or panics.
NewFoldIter(node, region, explore, depth, rng, cache, cap) ==
    [nodes |-> <<[node |-> node, region |-> region]>>,
     explore |-> explore, depth |-> depth, rng |-> rng, rngix |-> 0,
     cache |-> cache, cap |-> cap,
     yields |-> <<>>, explores |-> <<>>, gathers |-> <<>>, folds |-> <<>>,
     hang |-> FALSE, panic |-> FALSE]

\* rng.gen()
RngGen(it) == it.rng[(it.rngix % Len(it.rng)) + 1]

\* Internal::fold_rand; fold_rand_children is the map/filter_map over the
\* children that fold consumes.  Result: the Option<Sum> and the traversal.
RECURSIVE fold_rand(_, _, _, _)
RECURSIVE fold_rand_children(_, _, _, _, _, _)
fold_rand(node, region, depth, it) ==
    IF it.hang \/ it.panic THEN [sum |-> NoSum, it |-> it]
    ELSE CASE node.tag = "Node" ->
              LET c == CacheGet(it.cache, region)
              IN  IF c.sum # NoSum THEN [sum |-> c.sum, it |-> [it EXCEPT !.cache = c.cache]]
                  ELSE IF depth = 0
                  THEN LET morton == RngGen(it)
                           it1 == [it EXCEPT !.rngix = @ + 1]
                           choice == FirstNonNone(node.children, get_level(morton, 0))
                           s == sample(node.children[choice], shl3(morton))
                           sum == gather(s.morton, s.item)
                       IN  IF AllNone(node.children) \/ s.hang
                           THEN [sum |-> NoSum, it |-> [it1 EXCEPT !.hang = TRUE]]
                           ELSE [sum |-> sum,
                                 it |-> [it1 EXCEPT
                                     !.gathers = Append(@, [region |-> region,
                                                            morton |-> s.morton]),
                                     !.cache = CacheInsert(@, it.cap, region, sum)]]
                  ELSE IF region.level >= dim_bits
                  THEN \* region.enter below the last level of the key
                       [sum |-> NoSum, it |-> [it EXCEPT !.panic = TRUE]]
                  ELSE LET r == fold_rand_children(node.children, region, depth, 0, <<>>, it)
                           sum == fold(r.sums)
                       IN  IF r.it.hang \/ r.it.panic THEN [sum |-> NoSum, it |-> r.it]
                           ELSE [sum |-> sum,
                                 it |-> [r.it EXCEPT
                                     !.folds = Append(@, [region |-> region,
                                                          n |-> Len(r.sums)]),
                                     !.cache = CacheInsert(@, it.cap, region, sum)]]
           [] node.tag = "Leaf" ->
              LET c == CacheGet(it.cache, region)
                  sum == gather(node.morton, node.item)
              IN  IF c.sum # NoSum THEN [sum |-> c.sum, it |-> [it EXCEPT !.cache = c.cache]]
                  ELSE [sum |-> sum,
                        it |-> [it EXCEPT
                            !.gathers = Append(@, [region |-> region,
                                                   morton |-> node.morton]),
                            !.cache = CacheInsert(@, it.cap, region, sum)]]
           [] OTHER -> [sum |-> NoSum, it |-> it]

fold_rand_children(children, region, depth, ix, sums, it) ==
    IF ix > 7 \/ it.hang \/ it.panic THEN [sums |-> sums, it |-> it]
    ELSE LET r == fold_rand(children[ix], enter(region, ix), depth - 1, it)
         IN  fold_rand_children(children, region, depth, ix + 1,
                                IF r.sum = NoSum THEN sums ELSE Append(sums, r.sum),
                                r.it)

\* FoldIter::next: the traversal after the call and the pair it returned
\* (<<>> for None).
RECURSIVE FoldIterNext(_)
FoldIterNext(it) ==
    IF it.nodes = <<>> \/ it.hang \/ it.panic THEN [it |-> it, item |-> <<>>]
    ELSE
    LET top == it.nodes[Len(it.nodes)]
        node == top.node
        region == top.region
        it1 == [it EXCEPT
                  !.nodes = SubSeq(@, 1, Len(@) - 1),
                  !.explores = Append(@, [region |-> region,
                                          cached |-> CacheHas(it.cache, region)])]
    IN  IF region.level < it.explore
        THEN CASE node.tag = "Node" ->
                      IF region.level >= dim_bits
                      THEN [it |-> [it1 EXCEPT !.panic = TRUE], item |-> <<>>]
                      ELSE FoldIterNext([it1 EXCEPT !.nodes = @ \o
                               [ix \in 1..8 |-> [node |-> node.children[ix - 1],
                                                 region |-> enter(region, ix - 1)]]])
               [] node.tag = "Leaf" ->
                      LET c == CacheGet(it1.cache, region)
                          item == gather(node.morton, node.item)
                      IN  IF c.sum # NoSum
                          THEN [it |-> [it1 EXCEPT
                                    !.cache = c.cache,
                                    !.yields = Append(@, [region |-> region, sum |-> c.sum])],
                                item |-> <<region, c.sum>>]
                          ELSE [it |-> [it1 EXCEPT
                                    !.gathers = Append(@, [region |-> region,
                                                           morton |-> node.morton]),
                                    !.cache = CacheInsert(@, it.cap, region, item),
                                    !.yields = Append(@, [region |-> region, sum |-> item])],
                                item |-> <<region, item>>]
               [] OTHER -> FoldIterNext(it1)
        ELSE LET c == CacheGet(it1.cache, region)
                 r == fold_rand(node, region, it.depth, it1)
             IN  IF c.sum # NoSum
                 THEN [it |-> [it1 EXCEPT
                           !.cache = c.cache,
                           !.yields = Append(@, [region |-> region, sum |-> c.sum])],
                       item |-> <<region, c.sum>>]
                 ELSE IF r.it.hang \/ r.it.panic THEN [it |-> r.it, item |-> <<>>]
                 ELSE IF r.sum # NoSum
                 THEN [it |-> [r.it EXCEPT
                           !.cache = CacheInsert(@, it.cap, region, r.sum),
                           !.yields = Append(@, [region |-> region, sum |-> r.sum])],
                       item |-> <<region, r.sum>>]
                 ELSE FoldIterNext(r.it)

\* A FoldIter consumed until next() returns None (or it hangs or panics).
RECURSIVE FoldIterAll(_)
FoldIterAll(it) ==
    LET r == FoldIterNext(it)
    IN  IF r.item = <<>> THEN r.it ELSE FoldIterAll(r.it)

\* PointerOctree::iter_fold_random, consumed to the end.
iter_fold_random(t, depth, explore, rng, cache, cap) ==
    FoldIterAll(NewFoldIter(t, base, explore, depth, rng, cache, cap))

\* iter_fold with an explore predicate that is always false.
iter_fold_never_explore(t, rng, cache, cap) ==
    iter_fold_random(t, dim_bits, 0, rng, cache, cap)

\* PointerOctree::iter_fold, consumed to the end: explore is always true and
\* depth is dim_bits.
iter_fold(t, rng, cache, cap) ==
    iter_fold_random(t, dim_bits, dim_bits + 1, rng, cache, cap)

\* rng.gen_range(0, 8): the next value of the stream, as a child index.
GenRange(rng, rngix) == rng[(rngix % Len(rng)) + 1] % 8

\* InternalRandIter::next on the iterator [nodes, depth, rng, rngix, hang]
\* (nodes is the stack of [children, ix, level], top = end): the iterator it
\* leaves and the pair it yields (<<>> for None, also when the search for a
\* non-empty child never ends).
RECURSIVE InternalRandIterNext(_)
InternalRandIterNext(it) ==
    IF it.nodes = <<>> \/ it.hang THEN [it |-> it, item |-> <<>>]
    ELSE LET top == it.nodes[Len(it.nodes)]
             popped == SubSeq(it.nodes, 1, Len(it.nodes) - 1)
             pushed == IF top.level <= it.depth /\ top.ix # 7
                       THEN Append(popped, [children |-> top.children, ix |-> top.ix + 1,
                                            level |-> top.level])
                       ELSE popped
             child == top.children[top.ix]
         IN  CASE child.tag = "Node" ->
                      IF top.level >= it.depth
                      THEN IF AllNone(child.children)
                           THEN [it |-> [it EXCEPT !.nodes = pushed, !.rngix = @ + 1,
                                                   !.hang = TRUE],
                                 item |-> <<>>]
                           ELSE InternalRandIterNext([it EXCEPT
                                    !.nodes = Append(pushed,
                                        [children |-> child.children,
                                         ix |-> FirstNonNone(child.children,
                                                             GenRange(it.rng, it.rngix)),
                                         level |-> top.level + 1]),
                                    !.rngix = @ + 1])
                      ELSE InternalRandIterNext([it EXCEPT
                               !.nodes = Append(pushed, [children |-> child.children,
                                                         ix |-> 0,
                                                         level |-> top.level + 1])])
               [] child.tag = "Leaf" ->
                      [it |-> [it EXCEPT !.nodes = pushed],
                       item |-> <<child.morton, child.item>>]
               [] OTHER -> InternalRandIterNext([it EXCEPT !.nodes = pushed])

\* An InternalRandIter consumed until next() returns None or hangs: the pairs
\* it yields and whether it hangs.
RECURSIVE InternalRandIterAll(_, _)
InternalRandIterAll(it, yields) ==
    LET r == InternalRandIterNext(it)
    IN  IF r.item = <<>> THEN [yields |-> yields, hang |-> r.it.hang]
        ELSE InternalRandIterAll(r.it, Append(yields, r.item))

\* Internal::iter_rand / PointerOctree::iter_rand, consumed to the end.
iter_rand(t, depth, rng) ==
    CASE t.tag = "Node" ->
             IF depth = 0
             THEN IF AllNone(t.children) THEN [yields |-> <<>>, hang |-> TRUE]
                  ELSE InternalRandIterAll(
                           [nodes |-> <<[children |-> t.children,
                                         ix |-> FirstNonNone(t.children, GenRange(rng, 0)),
                                         level |-> 1]>>,
                            depth |-> depth, rng |-> rng, rngix |-> 1, hang |-> FALSE],
                           <<>>)
             ELSE InternalRandIterAll(
                      [nodes |-> <<[children |-> t.children, ix |-> 0, level |-> 1]>>,
                       depth |-> depth, rng |-> rng, rngix |-> 0, hang |-> FALSE], <<>>)
      [] t.tag = "Leaf" -> [yields |-> <<<<t.morton, t.item>>>>, hang |-> FALSE]
      [] OTHER -> [yields |-> <<>>, hang |-> FALSE]

\* SimpleExploreIter::next on the iterator [nodes, explore, panic] (nodes is
\* the stack of [node, region]; explore(region) is region.level < explore):
\* the iterator it leaves and the triple it yields (<<>> for None, also when
\* the call panics).
RECURSIVE SimpleExploreIterNext(_)
SimpleExploreIterNext(it) ==
    IF it.nodes = <<>> \/ it.panic THEN [it |-> it, item |-> <<>>]
    ELSE LET top == it.nodes[Len(it.nodes)]
             node == top.node
             region == top.region
             it1 == [it EXCEPT !.nodes = SubSeq(@, 1, Len(@) - 1)]
         IN  CASE node.tag = "Node" ->
                      IF region.level < it.explore
                      THEN IF region.level >= dim_bits
                           THEN [it |-> [it1 EXCEPT !.panic = TRUE], item |-> <<>>]
                           ELSE SimpleExploreIterNext([it1 EXCEPT !.nodes = @ \o
                                    [ix \in 1..8 |-> [node |-> node.children[ix - 1],
                                                      region |-> enter(region, ix - 1)]]])
                      ELSE LET first == InternalIterNext(
                                            <<[children |-> node.children, ix |-> 0]>>).item
                           IN  IF first = <<>>
                               THEN [it |-> [it1 EXCEPT !.panic = TRUE], item |-> <<>>]
                               ELSE [it |-> it1, item |-> <<region, first[1], first[2]>>]
               [] node.tag = "Leaf" ->
                      [it |-> it1, item |-> <<region, node.morton, node.item>>]
               [] OTHER -> SimpleExploreIterNext(it1)

\* A SimpleExploreIter consumed until next() returns None or panics.
RECURSIVE SimpleExploreIterAll(_, _)
SimpleExploreIterAll(it, yields) ==
    LET r == SimpleExploreIterNext(it)
    IN  IF r.item = <<>> THEN [yields |-> yields, panic |-> r.it.panic]
        ELSE SimpleExploreIterAll(r.it, Append(yields, r.item))

\* PointerOctree::iter_explore_simple, consumed to the end.
iter_explore_simple(t, explore) ==
    SimpleExploreIterAll([nodes |-> <<[node |-> t, region |-> base]>>,
                          explore |-> explore, panic |-> FALSE], <<>>)

\* ------------------------------------------------------------------------
\* LinearOctree (src/src/octree/linear.rs)
\* ------------------------------------------------------------------------
\* A null with no bit set instead of every bit set: a valid key.
null_no_bits == (8 ^ dim_bits) - 1 - used_bits

\* Morton::null: every bit of the 3 * dim_bits + 1 bit key set.
null == 2 * (8 ^ dim_bits) - 1

is_null(m) == m = null

\* morton_levels: the regions that contain the key, from the root region
\* (level 0) down to level dim_bits.
morton_levels(m) ==
    [k \in 1..(dim_bits + 1) |->
        [morton |-> (m \div (8 ^ (dim_bits - (k - 1)))) * (8 ^ (dim_bits - (k - 1))),
         level |-> k - 1]]

\* A hash map is a function on the set of its keys.
EmptyMap == [x \in {} |-> 0]

\* An insert that keeps the value of a key that is present.
MapInsert_keep_old(map, k, v) ==
    [x \in (DOMAIN map) \cup {k} |-> IF x \in DOMAIN map THEN map[x] ELSE v]

\* HashMap::insert
MapInsert(map, k, v) == [x \in (DOMAIN map) \cup {k} |-> IF x = k THEN v ELSE map[x]]

\* A remove that removes nothing.
MapRemove_keep(map, k) == map

\* HashMap::remove / OccupiedEntry::remove_entry
MapRemove(map, k) == [x \in (DOMAIN map) \ {k} |-> map[x]]

\* A split body that leaves out the children that are to hold null.
RECURSIVE InsertChildren_skip_null(_, _, _, _)
InsertChildren_skip_null(map, region, vals, i) ==
    IF i > 7 THEN map
    ELSE InsertChildren_skip_null(IF vals[i] = Unreachable \/ is_null(vals[i]) THEN map
                                  ELSE MapInsert(map, enter(region, i), vals[i]),
                                  region, vals, i + 1)

\* The body `for i in 0..8 { self.internals.insert(region.enter(i), ...) }`
\* of both branches of the split loop: child i gets vals[i], a child whose
\* vals[i] is Unreachable is skipped.
RECURSIVE InsertChildren(_, _, _, _)
InsertChildren(map, region, vals, i) ==
    IF i > 7 THEN map
    ELSE InsertChildren(IF vals[i] = Unreachable THEN map
                        ELSE MapInsert(map, enter(region, i), vals[i]),
                        region, vals, i + 1)

\* The loop `for level in region.level..M::dim_bits()` of LinearOctree::insert
\* after the entry of `region` was removed: the map it leaves, and whether it
\* fell through to unreachable!().
RECURSIVE LinearSplit(_, _, _, _, _)
LinearSplit(map, region, level, leaf, morton) ==
    IF level >= dim_bits THEN [internals |-> map, panic |-> TRUE]
    ELSE LET leaf_level == get_level(leaf, level)
             item_level == get_level(morton, level)
         IN  IF leaf_level = item_level
             THEN LinearSplit(
                      InsertChildren(map, region,
                          [i \in 0..7 |-> IF i # leaf_level THEN null ELSE Unreachable], 0),
                      enter(region, leaf_level), level + 1, leaf, morton)
             ELSE [internals |->
                      InsertChildren(map, region,
                          [i \in 0..7 |-> IF i = leaf_level THEN leaf
                                          ELSE IF i = item_level THEN morton
                                          ELSE null], 0),
                   panic |-> FALSE]

\* A walk whose split compares the keys from the level below the region on.
RECURSIVE LinearWalk_split_below(_, _, _)
LinearWalk_split_below(map, morton, k) ==
    IF k > Len(morton_levels(morton)) THEN [internals |-> map, panic |-> FALSE]
    ELSE LET region == morton_levels(morton)[k]
         IN  IF region \in DOMAIN map
             THEN IF is_null(map[region])
                  THEN [internals |-> MapInsert(map, region, morton), panic |-> FALSE]
                  ELSE LinearSplit(MapRemove(map, region), region, region.level + 1,
                                   map[region], morton)
             ELSE LinearWalk_split_below(map, morton, k + 1)

\* The loop `for mut region in morton_levels(morton)` of LinearOctree::insert
\* from the k-th region on.
RECURSIVE LinearWalk(_, _, _)
LinearWalk(map, morton, k) ==
    IF k > Len(morton_levels(morton)) THEN [internals |-> map, panic |-> FALSE]
    ELSE LET region == morton_levels(morton)[k]
         IN  IF region \in DOMAIN map
             THEN IF is_null(map[region])
                  THEN [internals |-> MapInsert(map, region, morton), panic |-> FALSE]
                  ELSE LinearSplit(MapRemove(map, region), region, region.level,
                                   map[region], morton)
             ELSE LinearWalk(map, morton, k + 1)

\* An insert that adjusts the internal nodes also when the key is present.
linear_insert_always_walk(lv, int, morton, item) ==
    LET w == LinearWalk(int, morton, 1)
    IN  [leaves |-> MapInsert(lv, morton, item), internals |-> w.internals,
         panic |-> w.panic]

\* LinearOctree::insert as a function of the two maps.
linear_insert(lv, int, morton, item) ==
    IF morton \in DOMAIN lv
    THEN [leaves |-> MapInsert(lv, morton, item), internals |-> int, panic |-> FALSE]
    ELSE LET w == LinearWalk(int, morton, 1)
         IN  [leaves |-> MapInsert(lv, morton, item), internals |-> w.internals,
              panic |-> w.panic]

\* LinearOctree::get
linear_get(lv, morton) == IF morton \in DOMAIN lv THEN lv[morton] ELSE NoItem

\* LinearOctree::collect_fold_region with the counting folder;
\* collect_fold_children is the filter_map over 0..8 that fold consumes.  The
\* run records what collect_fold's run records.
RECURSIVE collect_fold_region(_, _, _, _)
RECURSIVE collect_fold_children(_, _, _, _, _, _)
collect_fold_region(lv, int, region, run) ==
    IF run.panic THEN [sum |-> NoSum, run |-> run]
    ELSE IF region \in DOMAIN int
    THEN IF ~is_null(int[region])
         THEN IF int[region] \in DOMAIN lv
              THEN LET sum == gather(int[region], lv[int[region]])
                   IN  [sum |-> sum,
                        run |-> [run EXCEPT
                            !.map = extend(@, region, sum),
                            !.extends = @ + 1,
                            !.gathers = Append(@, [region |-> region,
                                                   morton |-> int[region]])]]
              ELSE [sum |-> NoSum, run |-> [run EXCEPT !.panic = TRUE]]
         ELSE [sum |-> NoSum, run |-> run]
    ELSE IF region.level >= dim_bits
    THEN [sum |-> NoSum, run |-> [run EXCEPT !.panic = TRUE]]
    ELSE LET c == collect_fold_children(lv, int, region, 0, <<>>, run)
             sum == fold(c.sums)
         IN  IF c.run.panic THEN [sum |-> NoSum, run |-> c.run]
             ELSE [sum |-> sum,
                   run |-> [c.run EXCEPT
                       !.map = extend(@, region, sum),
                       !.extends = @ + 1,
                       !.folds = Append(@, [region |-> region, n |-> Len(c.sums)])]]

collect_fold_children(lv, int, region, i, sums, run) ==
    IF i > 7 \/ run.panic THEN [sums |-> sums, run |-> run]
    ELSE LET r == collect_fold_region(lv, int, enter(region, i), run)
         IN  collect_fold_children(lv, int, region, i + 1,
                                   IF r.sum = NoSum THEN sums ELSE Append(sums, r.sum),
                                   r.run)

\* A collect_fold that starts at the first child of the root region.
linear_collect_fold_child(lv, int) == collect_fold_region(lv, int, enter(base, 0), NewRun)

\* LinearOctree::collect_fold with the counting folder.
linear_collect_fold(lv, int) == collect_fold_region(lv, int, base, NewRun)

\* ------------------------------------------------------------------------
\* Morton keys as bit strings (src/src/morton/mod.rs): encode, decode,
\* set_level, the hasher and the region cache
\* ------------------------------------------------------------------------
\* Self::BITS: a key of 3 * DimBits + 1 bits stands for u64 (64 = 3 * 21 + 1),
\* a key twice as wide for u128.
BITS(M) == IF M = "u64" THEN 3 * DimBits + 1 ELSE 2 * (3 * DimBits + 1)

\* Morton::dim_bits of implementation M.
DimBitsOf(M) == BITS(M) \div 3

\* Morton::used_bits of implementation M.
UsedBitsOf(M) == (2 ^ (3 * DimBitsOf(M))) - 1

\* usize::MAX + 1: usize is as wide as u64.
UsizeRange == 2 ^ BITS("u64")

\* Bitwise and, or, xor of two naturals.
RECURSIVE BitAnd(_, _)
BitAnd(a, b) ==
    IF a = 0 \/ b = 0 THEN 0
    ELSE ((a % 2) * (b % 2)) + 2 * BitAnd(a \div 2, b \div 2)

RECURSIVE BitOr(_, _)
BitOr(a, b) ==
    IF a = 0 THEN b
    ELSE IF b = 0 THEN a
    ELSE (IF a % 2 = 1 \/ b % 2 = 1 THEN 1 ELSE 0) + 2 * BitOr(a \div 2, b \div 2)

RECURSIVE BitXor(_, _)
BitXor(a, b) ==
    IF a = 0 THEN b
    ELSE IF b = 0 THEN a
    ELSE ((a + b) % 2) + 2 * BitXor(a \div 2, b \div 2)

\* !a on w bits.
BitNot(a, w) == (2 ^ w) - 1 - a

\* a << n on w bits (n < w): the bits shifted out are lost.
Shl(a, n, w) == (a % (2 ^ (w - n))) * (2 ^ n)

\* a >> n
Shr(a, n) == a \div (2 ^ n)

\* a.wrapping_mul(b) on w bits, by shift and add.
RECURSIVE WrappingMul(_, _, _)
WrappingMul(a, b, w) ==
    IF b = 0 THEN 0
    ELSE ((IF b % 2 = 1 THEN a ELSE 0) + 2 * WrappingMul(a, b \div 2, w)) % (2 ^ w)

\* Pdep::pdep on w bits: the low bits of x go to the set bits of mask, from
\* bit p on, x read from bit j on.
RECURSIVE pdep_from(_, _, _, _, _)
pdep_from(x, mask, p, j, w) ==
    IF p >= w THEN 0
    ELSE IF (mask \div (2 ^ p)) % 2 = 1
         THEN ((x \div (2 ^ j)) % 2) * (2 ^ p) + pdep_from(x, mask, p + 1, j + 1, w)
         ELSE pdep_from(x, mask, p + 1, j, w)

pdep(x, mask, w) == pdep_from(x, mask, 0, 0, w)

\* Pext::pext on w bits: the bits of x under the set bits of mask, packed
\* into the low bits.
RECURSIVE pext_from(_, _, _, _, _)
pext_from(x, mask, p, j, w) ==
    IF p >= w THEN 0
    ELSE IF (mask \div (2 ^ p)) % 2 = 1
         THEN ((x \div (2 ^ p)) % 2) * (2 ^ j) + pext_from(x, mask, p + 1, j + 1, w)
         ELSE pext_from(x, mask, p + 1, j, w)

pext(x, mask, w) == pext_from(x, mask, 0, 0, w)

\* The literal 0x1_249_249_249_249_249: every third bit, dim_bits of them.
bits == ((8 ^ dim_bits) - 1) \div 7

\* An encode that deposits x where y belongs and y where x belongs.
encode_u64_swapped(x, y, z) ==
    BitOr(BitOr(pdep(z, Shl(bits, 2, BITS("u64")), BITS("u64")),
                pdep(x, Shl(bits, 1, BITS("u64")), BITS("u64"))),
          pdep(y, bits, BITS("u64")))

\* <u64 as Morton>::encode
encode_u64(x, y, z) ==
    BitOr(BitOr(pdep(z, Shl(bits, 2, BITS("u64")), BITS("u64")),
                pdep(y, Shl(bits, 1, BITS("u64")), BITS("u64"))),
          pdep(x, bits, BITS("u64")))

\* A decode that extracts y and z with each other's mask.
decode_u64_swapped(m) ==
    <<BitAnd(pext(m, bits, BITS("u64")), used_bits),
      pext(m, Shl(bits, 2, BITS("u64")), BITS("u64")),
      pext(m, Shl(bits, 1, BITS("u64")), BITS("u64"))>>

\* <u64 as Morton>::decode
decode_u64(m) ==
    <<BitAnd(pext(m, bits, BITS("u64")), used_bits),
      pext(m, Shl(bits, 1, BITS("u64")), BITS("u64")),
      pext(m, Shl(bits, 2, BITS("u64")), BITS("u64"))>>

\* `v as u64`
as_u64(v) == v % (2 ^ BITS("u64"))

\* The mask (1 << 21) - 1 of the u128 implementation; 21 is dim_bits of u64.
half_mask == (2 ^ dim_bits) - 1

\* <u128 as Morton>::encode: two u64 codes joined with a shift of 63 bits
\* (3 * dim_bits of u64).
encode_u128(x, y, z) ==
    LET high == encode_u64(as_u64(BitAnd(Shr(x, dim_bits), half_mask)),
                           as_u64(BitAnd(Shr(y, dim_bits), half_mask)),
                           as_u64(BitAnd(Shr(z, dim_bits), half_mask)))
        low == encode_u64(as_u64(BitAnd(x, half_mask)),
                          as_u64(BitAnd(y, half_mask)),
                          as_u64(BitAnd(z, half_mask)))
    IN  BitOr(Shl(high, 3 * dim_bits, BITS("u128")), low)

\* A decode that takes the high half from bit 64 (the width of u64) on.
decode_u128_shift64(m) ==
    LET low == decode_u64(as_u64(m))
        high == decode_u64(as_u64(Shr(m, BITS("u64"))))
    IN  [k \in 1..3 |-> BitOr(Shl(high[k], dim_bits, BITS("u64")), low[k])]

\* <u128 as Morton>::decode
decode_u128(m) ==
    LET low == decode_u64(as_u64(m))
        high == decode_u64(as_u64(Shr(m, 3 * dim_bits)))
    IN  [k \in 1..3 |-> BitOr(Shl(high[k], dim_bits, BITS("u64")), low[k])]

\* Morton::encode / Morton::decode of implementation M.
encode(M, dims) ==
    IF M = "u64" THEN encode_u64(dims[1], dims[2], dims[3])
    ELSE encode_u128(dims[1], dims[2], dims[3])

decode(M, m) == IF M = "u64" THEN decode_u64(m) ELSE decode_u128(m)

\* Morton::get_level of implementation M.
get_level_of(M, m, level) ==
    BitAnd(Shr(BitAnd(m, UsedBitsOf(M)), 3 * (DimBitsOf(M) - level - 1)), 7)

\* Morton::highest_bits
highest_bits(M) == Shl(7, 3 * (DimBitsOf(M) - 1), BITS(M))

\* usize arithmetic of a build without overflow checks: results wrap.
wrapping_add(a, b) == (a + b) % UsizeRange

wrapping_sub(a, b) == (a + UsizeRange - b) % UsizeRange

wrapping_mul3(a) == ((a % UsizeRange) * 3) % UsizeRange

\* `v >> n` and `v << n` of a build without overflow checks: the shift
\* amount is masked to the width of v.
masked_shr(M, v, n) == Shr(v, n % BITS(M))

masked_shl(M, v, n) == Shl(v, n % BITS(M), BITS(M))

\* Morton::level_mask; with overflow checks `3 * level` and the shift panic
\* when they overflow.
level_mask(M, level, checks) ==
    IF checks /\ (3 * level >= UsizeRange \/ 3 * level >= BITS(M))
    THEN [mask |-> 0, panic |-> TRUE]
    ELSE [mask |-> masked_shr(M, highest_bits(M), wrapping_mul3(level)), panic |-> FALSE]

\* Morton::reset_level
reset_level(M, m, level, checks) ==
    LET lm == level_mask(M, level, checks)
    IN  IF lm.panic THEN [code |-> m, panic |-> TRUE]
        ELSE [code |-> BitAnd(m, BitNot(lm.mask, BITS(M))), panic |-> FALSE]

\* Morton::set_level on a build with (checks) or without overflow checks.
\* The guard is `dim_bits < level + 1`: `level + 1` overflows for
\* level = usize::MAX, which panics with checks and wraps to 0 without.
set_level(M, m, level, val, checks) ==
    IF checks /\ level + 1 >= UsizeRange THEN [code |-> m, panic |-> TRUE]
    ELSE IF DimBitsOf(M) < wrapping_add(level, 1) THEN [code |-> m, panic |-> TRUE]
    ELSE LET r == reset_level(M, m, level, checks)
             shift == wrapping_mul3(wrapping_sub(wrapping_sub(DimBitsOf(M), level), 1))
         IN  IF r.panic THEN r
             ELSE IF checks /\ shift >= BITS(M) THEN [code |-> r.code, panic |-> TRUE]
             ELSE [code |-> BitOr(r.code, masked_shl(M, val % (2 ^ BITS(M)), shift)),
                   panic |-> FALSE]

\* CACHE_LOCALITY_BITS
CACHE_LOCALITY_BITS == 3

\* The two literals of the hasher, 14695981039346656037 and 1099511628211,
\* cut to their low 15 bits (0x2325 and 0x01b3).
OffsetBasis == 8997

Prime == 435

\* A hasher that mixes the key without setting the locality bits aside.
write_u64_keep_all(i) ==
    LET w == BITS("u64")
        bottom_mask == Shl(1, CACHE_LOCALITY_BITS, w) - 1
        top == Shr(BitAnd(i, BitNot(bottom_mask, w)), CACHE_LOCALITY_BITS)
    IN  WrappingMul(BitXor(top, OffsetBasis % (2 ^ w)), Prime % (2 ^ w), w)

\* MortonHash::write_u64
write_u64(i) ==
    LET w == BITS("u64")
        bottom_mask == Shl(1, CACHE_LOCALITY_BITS, w) - 1
        bottom == BitAnd(i, bottom_mask)
        top == Shr(BitAnd(i, BitNot(bottom_mask, w)), CACHE_LOCALITY_BITS)
    IN  BitAnd(WrappingMul(BitXor(top, OffsetBasis % (2 ^ w)), Prime % (2 ^ w), w),
               BitNot(bottom_mask, w)) + bottom

\* MortonHash::write_u128: the same in u128, then `as u64`.
write_u128(i) ==
    LET w == BITS("u128")
        bottom_mask == Shl(1, CACHE_LOCALITY_BITS, w) - 1
        bottom == BitAnd(i, bottom_mask)
        top == Shr(BitAnd(i, BitNot(bottom_mask, w)), CACHE_LOCALITY_BITS)
    IN  as_u64(BitAnd(WrappingMul(BitXor(top, OffsetBasis % (2 ^ BITS("u64"))),
                                  Prime % (2 ^ BITS("u64")), w),
                      BitNot(bottom_mask, w)) + bottom)

\* The hash a MortonHash finishes with after one key of implementation M.
write(M, i) == IF M = "u64" THEN write_u64(i) ELSE write_u128(i)

\* The loop `for region in morton_levels(morton) { cache.remove(&region) }`
RECURSIVE RemoveAll(_, _, _)
RemoveAll(rc, regions, k) ==
    IF k > Len(regions) THEN rc
    ELSE RemoveAll(CacheRemove(rc, regions[k]), regions, k + 1)

\* An invalidation that removes nothing.
invalidate_nothing(morton, rc) == rc

\* An invalidation that removes the root region only.
invalidate_base_only(morton, rc) == CacheRemove(rc, base)

\* invalidate_region_cache: the root region, then every region of
\* morton_levels(morton), is removed from the cache.
invalidate_region_cache(morton, rc) ==
    RemoveAll(CacheRemove(rc, base), morton_levels(morton), 1)

\* ------------------------------------------------------------------------
\* State
\* ------------------------------------------------------------------------
VARIABLES
    tree,       \* PointerOctree.tree
    count,      \* PointerOctree.count
    panicked,   \* a call hit unreachable!() or panic!(): the program is gone
    inserted,   \* history: key -> payload of the latest insert call, or NoItem
    ninserts,   \* history: number of insert calls
    nremoves,   \* history: number of remove calls
    last,       \* history: the latest call, its arguments and what it returned
    leaves,     \* LinearOctree.leaves
    internals,  \* LinearOctree.internals
    morton_type,    \* the Morton implementation in use, "u64" or "u128"
    code,           \* a Morton key of that type (the `self` of set_level, decode)
    region_cache    \* a MortonRegionCache

\* The state outside the two octrees.
morton_vars == <<morton_type, code, region_cache>>

vars == <<tree, count, panicked, inserted, ninserts, nremoves, last, leaves, internals,
          morton_vars>>

Call(op, morton, item, ret) == [op |-> op, morton |-> morton, item |-> item, ret |-> ret]

Init ==
    /\ tree = None
    /\ count = 0
    /\ panicked = FALSE
    /\ inserted = [m \in Keys |-> NoItem]
    /\ ninserts = 0
    /\ nremoves = 0
    /\ last = Call("new", 0, NoItem, NoItem)
    /\ leaves = EmptyMap
    /\ internals = MapInsert(EmptyMap, base, null)
    /\ morton_type = "u64"
    /\ code = 0
    /\ region_cache = <<>>

\* PointerOctree::insert(morton, item)
Insert(morton, item) ==
    /\ ~panicked
    /\ ninserts + nremoves < MaxOps
    /\ tree' = insert(tree, count, morton, item).tree
    /\ count' = insert(tree, count, morton, item).count
    /\ panicked' = insert(tree, count, morton, item).panic
    /\ inserted' = [inserted EXCEPT ![morton] = item]
    /\ ninserts' = ninserts + 1
    /\ last' = Call("insert", morton, item, NoItem)
    /\ UNCHANGED <<nremoves, leaves, internals, morton_vars>>

\* PointerOctree::remove(morton)
Remove(morton) ==
    /\ ~panicked
    /\ ninserts + nremoves < MaxOps
    /\ tree' = remove(tree, morton).tree
    /\ last' = Call("remove", morton, NoItem, remove(tree, morton).ret)
    /\ panicked' = (remove(tree, morton).ret = Unreachable)
    /\ nremoves' = nremoves + 1
    /\ UNCHANGED <<count, inserted, ninserts, leaves, internals, morton_vars>>

\* PointerOctree::get(morton)
Get(morton) ==
    /\ ~panicked
    /\ last' = Call("get", morton, NoItem, get(tree, morton))
    /\ panicked' = (get(tree, morton) = Unreachable)
    /\ UNCHANGED <<tree, count, inserted, ninserts, nremoves, leaves, internals, morton_vars>>

\* PointerOctree::len()
LenCall ==
    /\ ~panicked
    /\ last' = Call("len", 0, NoItem, len(count))
    /\ UNCHANGED <<tree, count, panicked, inserted, ninserts, nremoves, leaves, internals, morton_vars>>

\* PointerOctree::is_empty()
IsEmptyCall ==
    /\ ~panicked
    /\ last' = Call("is_empty", 0, NoItem, IF is_empty(count) THEN 1 ELSE 0)
    /\ UNCHANGED <<tree, count, panicked, inserted, ninserts, nremoves, leaves, internals, morton_vars>>

\* PointerOctree::iter(), consumed to the end; the call returns the number
\* of pairs (iter().count()).
IterCall ==
    /\ ~panicked
    /\ last' = Call("iter", 0, NoItem, Len(iter(tree)))
    /\ UNCHANGED <<tree, count, panicked, inserted, ninserts, nremoves, leaves, internals, morton_vars>>

\* PointerOctree::collect_fold(&counting folder); the call returns the Sum
\* of the root region (NoSum when the map has no root entry).
CollectFoldCall ==
    /\ ~panicked
    /\ LET r == CollectFoldRun(tree)
       IN  /\ panicked' = r.run.panic
           /\ last' = Call("collect_fold", 0, NoItem,
                           IF r.run.panic THEN Unreachable ELSE r.sum)
    /\ UNCHANGED <<tree, count, inserted, ninserts, nremoves, leaves, internals, morton_vars>>

Next ==
    \/ \E morton \in Keys, item \in Items : Insert(morton, item)
    \/ \E morton \in Keys : Remove(morton)
    \/ \E morton \in Keys : Get(morton)
    \/ LenCall
    \/ IsEmptyCall
    \/ IterCall
    \/ CollectFoldCall

Spec == Init /\ [][Next]_vars

\* ------------------------------------------------------------------------
\* What is in the tree, read off its structure
\* ------------------------------------------------------------------------
\* The leaves under `node`, each with the path of child indices that leads
\* to its slot.
RECURSIVE LeavesAt(_, _)
LeavesAt(node, path) ==
    CASE node.tag = "Leaf" -> {[path |-> path, morton |-> node.morton, item |-> node.item]}
      [] node.tag = "Node" ->
             UNION {LeavesAt(node.children[i], Append(path, i)) : i \in 0..7}
      [] OTHER -> {}

\* The paths of the Nodes under `node`.
RECURSIVE NodesAt(_, _)
NodesAt(node, path) ==
    CASE node.tag = "Node" ->
             {path} \cup UNION {NodesAt(node.children[i], Append(path, i)) : i \in 0..7}
      [] OTHER -> {}

\* The region collect_fold and the fold iterators give to the slot at `path`.
RECURSIVE RegionOf(_)
RegionOf(path) ==
    IF path = <<>> THEN base
    ELSE enter(RegionOf(SubSeq(path, 1, Len(path) - 1)), path[Len(path)])

\* Key m is stored with payload v: the tree holds Leaf(v, m).
Stored(t, m, v) == \E l \in LeavesAt(t, <<>>) : l.morton = m /\ l.item = v

KeyStored(t, m) == \E l \in LeavesAt(t, <<>>) : l.morton = m

\* The path of child indices that a region stands for.
RegionPath(region) == [k \in 1..region.level |-> get_level(region.morton, k - 1)]

\* The subtree found by following `path` (None when the path leaves the tree).
RECURSIVE NodeAt(_, _)
NodeAt(node, path) ==
    IF path = <<>> THEN node
    ELSE IF node.tag = "Node" THEN NodeAt(node.children[Head(path)], Tail(path))
    ELSE None

\* The subtree of the region holds no leaf.
EmptyRegion(t, region) == LeavesAt(NodeAt(t, RegionPath(region)), <<>>) = {}

\* The explore predicates, depths and random values the fold iterators are
\* run with: explore(region) is region.level < e, and every rng.gen() of one
\* run returns the same value.
Explores == 0..(dim_bits + 1)

Depths == 0..dim_bits

Rngs == {<<m>> : m \in {k \in 0..used_bits :
                          \A l \in 0..(dim_bits - 1) : get_level(k, l) <= MaxDigit + 1}}

InsertedKeys == {m \in Keys : inserted[m] # NoItem}

\* Only insert calls so far, all on pairwise distinct keys.
DistinctInsertsOnly == nremoves = 0 /\ ninserts = Cardinality(InsertedKeys)

\* ------------------------------------------------------------------------
\* The pointer octree under its traversals: the same tree and count, with the
\* history cut down to the latest call and what it returned.
\* ------------------------------------------------------------------------
\* PointerOctree::insert(morton, item)
TravInsert(morton, item) ==
    /\ ~panicked
    /\ ninserts + nremoves < MaxTravOps
    /\ tree' = insert(tree, count, morton, item).tree
    /\ count' = insert(tree, count, morton, item).count
    /\ panicked' = insert(tree, count, morton, item).panic
    /\ ninserts' = ninserts + 1
    /\ last' = Call("insert", 0, NoItem, NoItem)
    /\ UNCHANGED <<inserted, nremoves, leaves, internals, morton_vars>>

\* PointerOctree::remove(morton)
TravRemove(morton) ==
    /\ ~panicked
    /\ ninserts + nremoves < MaxTravOps
    /\ tree' = remove(tree, morton).tree
    /\ panicked' = (remove(tree, morton).ret = Unreachable)
    /\ nremoves' = nremoves + 1
    /\ last' = Call("remove", 0, NoItem, remove(tree, morton).ret)
    /\ UNCHANGED <<count, inserted, ninserts, leaves, internals, morton_vars>>

\* The random streams the traversal calls are run with: every value the rng
\* produces is 0, or every value is the key with all digits 7.
CallRngs == {<<0>>, <<used_bits>>}

\* What a traversal call returns: the number of things it yielded, or
\* Unreachable when it panicked or never returned.
TravRet(failed, yields) == IF failed THEN Unreachable ELSE Len(yields)

\* PointerOctree::iter_fold(counting folder, empty cache), consumed to the end.
IterFoldCall ==
    /\ ~panicked
    /\ \E rng \in CallRngs :
          LET it == iter_fold(tree, rng, <<>>, MaxCache)
          IN  /\ panicked' = (it.hang \/ it.panic)
              /\ last' = Call("iter_fold", 0, NoItem, TravRet(it.hang \/ it.panic, it.yields))
    /\ UNCHANGED <<tree, count, inserted, ninserts, nremoves, leaves, internals, morton_vars>>

\* PointerOctree::iter_fold_random(depth, explore, counting folder, rng, empty
\* cache), consumed to the end.
IterFoldRandomCall(depth, explore, rng) ==
    /\ ~panicked
    /\ LET it == iter_fold_random(tree, depth, explore, rng, <<>>, MaxCache)
       IN  /\ panicked' = (it.hang \/ it.panic)
           /\ last' = Call("iter_fold_random", 0, NoItem,
                           TravRet(it.hang \/ it.panic, it.yields))
    /\ UNCHANGED <<tree, count, inserted, ninserts, nremoves, leaves, internals, morton_vars>>

\* PointerOctree::iter_rand(depth, rng), consumed to the end.
IterRandCall(depth, rng) ==
    /\ ~panicked
    /\ LET r == iter_rand(tree, depth, rng)
       IN  /\ panicked' = r.hang
           /\ last' = Call("iter_rand", 0, NoItem, TravRet(r.hang, r.yields))
    /\ UNCHANGED <<tree, count, inserted, ninserts, nremoves, leaves, internals, morton_vars>>

\* PointerOctree::iter_explore_simple(explore), consumed to the end.
IterExploreSimpleCall(explore) ==
    /\ ~panicked
    /\ LET r == iter_explore_simple(tree, explore)
       IN  /\ panicked' = r.panic
           /\ last' = Call("iter_explore_simple", 0, NoItem, TravRet(r.panic, r.yields))
    /\ UNCHANGED <<tree, count, inserted, ninserts, nremoves, leaves, internals, morton_vars>>

TravNext ==
    \/ \E morton \in Keys, item \in Items : TravInsert(morton, item)
    \/ \E morton \in Keys : TravRemove(morton)
    \/ IterCall
    \/ CollectFoldCall
    \/ IterFoldCall
    \/ \E depth \in Depths, explore \in Explores, rng \in CallRngs :
          IterFoldRandomCall(depth, explore, rng)
    \/ \E depth \in Depths, rng \in CallRngs : IterRandCall(depth, rng)
    \/ \E explore \in Explores : IterExploreSimpleCall(explore)

SpecTrav == Init /\ [][TravNext]_vars

\* ------------------------------------------------------------------------
\* The linear octree under insert, get and collect_fold
\* ------------------------------------------------------------------------
\* LinearOctree::insert(morton, item)
LinInsert(morton, item) ==
    /\ ~panicked
    /\ ninserts < MaxOps
    /\ leaves' = linear_insert(leaves, internals, morton, item).leaves
    /\ internals' = linear_insert(leaves, internals, morton, item).internals
    /\ panicked' = linear_insert(leaves, internals, morton, item).panic
    /\ ninserts' = ninserts + 1
    /\ inserted' = [inserted EXCEPT ![morton] = item]
    /\ last' = Call("linear_insert", morton, item, NoItem)
    /\ UNCHANGED <<tree, count, nremoves, morton_vars>>

\* LinearOctree::get(morton)
LinGet(morton) ==
    /\ ~panicked
    /\ last' = Call("linear_get", morton, NoItem, linear_get(leaves, morton))
    /\ UNCHANGED <<tree, count, panicked, inserted, ninserts, nremoves, leaves, internals, morton_vars>>

\* LinearOctree::collect_fold(&counting folder); the call returns the Sum of
\* the root region (NoSum when the map has no root entry).
LinCollectFold ==
    /\ ~panicked
    /\ LET r == linear_collect_fold(leaves, internals)
       IN  /\ panicked' = r.run.panic
           /\ last' = Call("linear_collect_fold", 0, NoItem,
                           IF r.run.panic THEN Unreachable ELSE r.sum)
    /\ UNCHANGED <<tree, count, inserted, ninserts, nremoves, leaves, internals, morton_vars>>

LinNext ==
    \/ \E morton \in Keys, item \in Items : LinInsert(morton, item)
    \/ \E morton \in Keys : LinGet(morton)
    \/ LinCollectFold

SpecLinear == Init /\ [][LinNext]_vars

\* ------------------------------------------------------------------------
\* The Morton functions on their own: a key is drawn, one of encode and
\* set_level makes a key, decode and the hasher read the key there is
\* ------------------------------------------------------------------------
\* The state of the two octrees.
octree_vars == <<tree, count, inserted, ninserts, nremoves, leaves, internals>>

MortonTypes == {"u64", "u128"}

\* The u128 keys a behaviour may start from: any top bits, the two halves
\* from a few u64 codes.
HalfCodes == Keys \cup {used_bits, 2 * bits, 5 * bits}

WideCodes ==
    {BitOr(Shl(u, 2 * 3 * dim_bits, BITS("u128")), BitOr(Shl(h, 3 * dim_bits, BITS("u128")), l)) :
        u \in 0..3, h \in HalfCodes, l \in HalfCodes}

\* The keys of implementation M a behaviour starts from: every u64,
\* WideCodes for u128.
Codes(M) == IF M = "u64" THEN 0..((2 ^ BITS("u64")) - 1) ELSE WideCodes

\* The coordinates handed to encode: every coordinate of dim_bits bits for
\* u64, a few of 2 * dim_bits bits for u128.
Coords(M) ==
    IF M = "u64" THEN 0..((2 ^ dim_bits) - 1)
    ELSE {BitOr(Shl(h, dim_bits, BITS("u64")), l) :
            h \in {0, 1, (2 ^ dim_bits) - 1}, l \in {0, 1, (2 ^ dim_bits) - 1}}

\* The levels handed to set_level: those in range, dim_bits, dim_bits + 1
\* and usize::MAX.
Levels(M) == 0..(DimBitsOf(M) + 1) \cup {UsizeRange - 1}

MortonInit ==
    /\ tree = None
    /\ count = 0
    /\ panicked = FALSE
    /\ inserted = [m \in Keys |-> NoItem]
    /\ ninserts = 0
    /\ nremoves = 0
    /\ last = Call("new", 0, NoItem, NoItem)
    /\ leaves = EmptyMap
    /\ internals = MapInsert(EmptyMap, base, null)
    /\ morton_type \in MortonTypes
    /\ code \in Codes(morton_type)
    /\ region_cache = <<>>

\* code = Morton::encode(dims)
EncodeCall(dims) ==
    /\ ~panicked
    /\ last.op = "new"
    /\ code' = encode(morton_type, dims)
    /\ last' = Call("encode", 0, dims, code')
    /\ UNCHANGED <<octree_vars, panicked, morton_type, region_cache>>

\* code.set_level(level, val), on a build with or without overflow checks
SetLevelCall(level, val, checks) ==
    /\ ~panicked
    /\ last.op = "new"
    /\ code' = set_level(morton_type, code, level, val, checks).code
    /\ panicked' = set_level(morton_type, code, level, val, checks).panic
    /\ last' = Call("set_level", code, <<level, val>>, code')
    /\ UNCHANGED <<octree_vars, morton_type, region_cache>>

\* code.decode()
DecodeCall ==
    /\ ~panicked
    /\ last.op \in {"new", "encode", "set_level"}
    /\ last' = Call("decode", code, last.item, decode(morton_type, code))
    /\ UNCHANGED <<octree_vars, panicked, morton_vars>>

\* code.hash(&mut MortonHash), then finish()
HashCall ==
    /\ ~panicked
    /\ last.op \in {"new", "encode", "set_level"}
    /\ last' = Call("hash", code, NoItem, write(morton_type, code))
    /\ UNCHANGED <<octree_vars, panicked, morton_vars>>

MortonNext ==
    \/ \E x \in Coords(morton_type), y \in Coords(morton_type), z \in Coords(morton_type) :
           EncodeCall(<<x, y, z>>)
    \/ \E level \in Levels(morton_type), val \in 0..7, checks \in BOOLEAN :
           SetLevelCall(level, val, checks)
    \/ DecodeCall
    \/ HashCall

SpecMorton == MortonInit /\ [][MortonNext]_vars

\* ------------------------------------------------------------------------
\* The region cache on its own: entries are put in, keys are invalidated
\* ------------------------------------------------------------------------
\* The regions of the keys in Keys.
Regions == {morton_levels(m)[k] : m \in Keys, k \in 1..(dim_bits + 1)}

\* LruCache::insert(region, sum) on a cache of capacity MaxRegionCache
CachePut(region, sum) ==
    /\ region_cache' = CacheInsert(region_cache, MaxRegionCache, region, sum)
    /\ last' = Call("cache_insert", region.morton, sum, region.level)
    /\ UNCHANGED <<octree_vars, panicked, morton_type, code>>

\* invalidate_region_cache(morton, &mut region_cache)
InvalidateCall(morton) ==
    /\ region_cache' = invalidate_region_cache(morton, region_cache)
    /\ last' = Call("invalidate_region_cache", morton, region_cache, NoItem)
    /\ UNCHANGED <<octree_vars, panicked, morton_type, code>>

CacheNext ==
    \/ \E region \in Regions, sum \in Items : CachePut(region, sum)
    \/ \E morton \in Keys : InvalidateCall(morton)

SpecCache == Init /\ [][CacheNext]_vars

\* ------------------------------------------------------------------------
\* The pointer octree with a region cache that is kept across traversals:
\* every insert and remove is followed by invalidate_region_cache on its key
\* ------------------------------------------------------------------------
\* insert(morton, item); invalidate_region_cache(morton, &mut cache).  A run
\* makes up to MaxTravOps + 1 mutating calls.
CoherentInsert(morton, item) ==
    /\ ~panicked
    /\ ninserts + nremoves <= MaxTravOps
    /\ tree' = insert(tree, count, morton, item).tree
    /\ count' = insert(tree, count, morton, item).count
    /\ panicked' = insert(tree, count, morton, item).panic
    /\ ninserts' = ninserts + 1
    /\ region_cache' = invalidate_region_cache(morton, region_cache)
    /\ last' = Call("insert", 0, NoItem, NoItem)
    /\ UNCHANGED <<inserted, nremoves, leaves, internals, morton_type, code>>

\* remove(morton); invalidate_region_cache(morton, &mut cache)
CoherentRemove(morton) ==
    /\ ~panicked
    /\ ninserts + nremoves <= MaxTravOps
    /\ tree' = remove(tree, morton).tree
    /\ panicked' = (remove(tree, morton).ret = Unreachable)
    /\ nremoves' = nremoves + 1
    /\ region_cache' = invalidate_region_cache(morton, region_cache)
    /\ last' = Call("remove", 0, NoItem, remove(tree, morton).ret)
    /\ UNCHANGED <<count, inserted, ninserts, leaves, internals, morton_type, code>>

\* cache = iter_fold_random(dim_bits, explore, counting folder, rng, cache),
\* consumed to the end, .into()
CoherentTraverse(explore, rng) ==
    /\ ~panicked
    /\ LET it == iter_fold_random(tree, dim_bits, explore, rng, region_cache, MaxCache)
       IN  /\ panicked' = (it.hang \/ it.panic)
           /\ region_cache' = it.cache
           /\ last' = Call("iter_fold_random", 0, explore,
                           TravRet(it.hang \/ it.panic, it.yields))
    /\ UNCHANGED <<octree_vars, morton_type, code>>

CoherentNext ==
    \/ \E morton \in Keys : CoherentInsert(morton, 1)
    \/ \E morton \in Keys : CoherentRemove(morton)
    \/ \E explore \in Explores, rng \in CallRngs : CoherentTraverse(explore, rng)

SpecCoherent == Init /\ [][CoherentNext]_vars

\* ------------------------------------------------------------------------
\* A PointerOctree and a LinearOctree that are given the same inserts
\* ------------------------------------------------------------------------
\* pointer.insert(morton, item); linear.insert(morton, item)
BothInsert(morton, item) ==
    /\ ~panicked
    /\ ninserts < MaxOps
    /\ tree' = insert(tree, count, morton, item).tree
    /\ count' = insert(tree, count, morton, item).count
    /\ leaves' = linear_insert(leaves, internals, morton, item).leaves
    /\ internals' = linear_insert(leaves, internals, morton, item).internals
    /\ panicked' = (insert(tree, count, morton, item).panic
                        \/ linear_insert(leaves, internals, morton, item).panic)
    /\ inserted' = [inserted EXCEPT ![morton] = item]
    /\ ninserts' = ninserts + 1
    /\ last' = Call("insert", morton, item, NoItem)
    /\ UNCHANGED <<nremoves, morton_vars>>

\* pointer.collect_fold(&counting folder); linear.collect_fold(&counting
\* folder): the call records the Sum each map holds for the root region.
BothCollectFold ==
    /\ ~panicked
    /\ LET p == CollectFoldRun(tree)
           l == linear_collect_fold(leaves, internals)
       IN  /\ panicked' = (p.run.panic \/ l.run.panic)
           /\ last' = Call("collect_fold", 0,
                           IF p.run.panic THEN Unreachable ELSE p.sum,
                           IF l.run.panic THEN Unreachable ELSE l.sum)
    /\ UNCHANGED <<octree_vars, morton_vars>>

BothNext ==
    \/ \E morton \in Keys, item \in Items : BothInsert(morton, item)
    \/ BothCollectFold

SpecBoth == Init /\ [][BothNext]_vars

\* ------------------------------------------------------------------------
\* Claims
\* ------------------------------------------------------------------------

\* C1: after any sequence of insert calls on pairwise distinct valid keys,
\* starting from the empty tree, len() is the number of insert calls and
\* get(m) returns the payload inserted with m, for every inserted key m.
C1_InsertThenGet ==
    DistinctInsertsOnly =>
        /\ len(count) = ninserts
        /\ \A m \in InsertedKeys : get(tree, m) = inserted[m]

\* C2: when key m is stored with payload v, remove(m) returns Some(v); right
\* after it get(m) is None, a second remove(m) returns None, and len() is one
\* less than before the remove.
C2_RemoveStored ==
    [][\A m \in Keys, v \in Items :
          (last'.op = "remove" /\ last'.morton = m /\ Stored(tree, m, v)
             /\ get(tree, m) = v)
          => /\ last'.ret = v
             /\ get(tree', m) = NoItem
             /\ remove(tree', m).ret = NoItem
             /\ len(count') = len(count) - 1]_vars

\* C3: remove(m) of a key that is not stored returns None and removes
\* nothing: every key get returned before is returned with the same payload
\* afterwards, also when the descent for m ends on a Leaf with another key.
C3_RemoveAbsent ==
    [][(last'.op = "remove" /\ ~KeyStored(tree, last'.morton))
          => /\ last'.ret = NoItem
             /\ \A k \in Keys : get(tree, k) \in Items => get(tree', k) = get(tree, k)]_vars

\* C4: after any sequence of insert calls from the empty tree, iter() yields
\* exactly len() pairs and the keys it yields are the keys inserted.
C4_IterAfterInserts ==
    nremoves = 0 =>
        /\ Len(iter(tree)) = len(count)
        /\ {iter(tree)[k][1] : k \in 1..Len(iter(tree))} = InsertedKeys

\* C5: in a state reached by insert calls, insert(m, v2) of a key inserted
\* earlier leaves len() unchanged, get(m) then returns v2, and the tree holds
\* one leaf for m.
C5_InsertTwice ==
    [][(last'.op = "insert" /\ nremoves = 0 /\ inserted[last'.morton] # NoItem)
          => /\ len(count') = len(count)
             /\ get(tree', last'.morton) = last'.item
             /\ Cardinality({l \in LeavesAt(tree', <<>>) : l.morton = last'.morton}) = 1]_vars

\* C6: in every state reached by insert and remove calls, len() is the
\* number of leaves stored in the tree, which is the number of pairs iter()
\* yields, and is_empty() holds exactly when no leaf is stored.
C6_LenIsLeafCount ==
    /\ len(count) = Cardinality(LeavesAt(tree, <<>>))
    /\ len(count) = Len(iter(tree))
    /\ is_empty(count) <=> (LeavesAt(tree, <<>>) = {})

\* C7: when at least one leaf is stored, collect_fold with the counting
\* folder maps the root region to len().
C7_CountingFold ==
    LeavesAt(tree, <<>>) # {} =>
        LET r == CollectFoldRun(tree).run
        IN  /\ ~r.panic
            /\ \E e \in r.map : e.region = base /\ e.sum = len(count)

\* C8: in every state reached by insert and remove calls, collect_fold and
\* fold_rand (under iter_fold_random) never call folder.fold with an empty
\* stream of Sums: every fold call gets between 1 and 8 Sums.
C8_FoldNeverEmpty ==
    /\ LET r == CollectFoldRun(tree).run
       IN  \A k \in 1..Len(r.folds) : r.folds[k].n \in 1..8
    /\ \A e \in Explores, d \in Depths, rng \in Rngs :
          LET it == iter_fold_random(tree, d, e, rng, <<>>, MaxCache)
          IN  \A k \in 1..Len(it.folds) : it.folds[k].n \in 1..8

\* C9: a region whose subtree holds no leaf gets no fold result, in every
\* state reached by insert and remove calls: collect_fold's map has no entry
\* for it and iter_fold / iter_fold_random never yield it.
C9_EmptyRegionNoResult ==
    /\ LET r == CollectFoldRun(tree).run
       IN  \A e \in r.map : ~EmptyRegion(tree, e.region)
    /\ \A e \in Explores, d \in Depths, rng \in Rngs :
          LET it == iter_fold_random(tree, d, e, rng, <<>>, MaxCache)
          IN  \A k \in 1..Len(it.yields) : ~EmptyRegion(tree, it.yields[k].region)
    /\ \A rng \in Rngs :
          LET it == iter_fold(tree, rng, <<>>, MaxCache)
          IN  \A k \in 1..Len(it.yields) : ~EmptyRegion(tree, it.yields[k].region)

\* C10: collect_fold calls gather exactly once for each stored leaf, fold at
\* most once for each Node and exactly once for each Node with a leaf below
\* it, and puts one entry in the map for each such leaf slot and Node.
C10_CollectFoldCalls ==
    LET r == CollectFoldRun(tree).run
        stored == LeavesAt(tree, <<>>)
        nodes == NodesAt(tree, <<>>)
        Gathers(l) == {k \in 1..Len(r.gathers) :
                          r.gathers[k] = [region |-> RegionOf(l.path), morton |-> l.morton]}
        Folds(p) == {k \in 1..Len(r.folds) : r.folds[k].region = RegionOf(p)}
    IN  /\ \A l \in stored : Cardinality(Gathers(l)) = 1
        /\ Len(r.gathers) = Cardinality(stored)
        /\ \A p \in nodes : Cardinality(Folds(p)) <= 1
        /\ \A p \in nodes : LeavesAt(Slot(tree, p), p) # {} => Cardinality(Folds(p)) = 1
        /\ \A l \in stored : \E e \in r.map : e.region = RegionOf(l.path)
        /\ \A p \in nodes : LeavesAt(Slot(tree, p), p) # {} =>
               \E e \in r.map : e.region = RegionOf(p)
        /\ r.extends = Len(r.gathers) + Len(r.folds)

\* C11 as stated: for a tree that stores a leaf, iter_fold started with an
\* empty cache produces a Sum for the root region (it yields it, or leaves it
\* in the cache) and it is the Sum collect_fold stores for the root region.
C11_IterFoldRootSum ==
    LeavesAt(tree, <<>>) # {} =>
        \A rng \in CallRngs :
            LET it == iter_fold(tree, rng, <<>>, MaxCache)
                r == CollectFoldRun(tree)
            IN  \/ \E k \in 1..Len(it.yields) :
                       it.yields[k] = [region |-> base, sum |-> r.sum]
                \/ \E k \in 1..Len(it.cache) :
                       it.cache[k] = [region |-> base, sum |-> r.sum]

\* C11 amended: iter_fold never folds; every pair it yields is the region of
\* a stored leaf with the Sum gather gives for that leaf.  It produces a Sum
\* for the root region only when the root is itself a Leaf, and that Sum is
\* the one collect_fold stores for the root region; when the root is a Node
\* nothing is yielded or cached for the root region.
C11_IterFoldLeavesOnly ==
    \A rng \in CallRngs :
        LET it == iter_fold(tree, rng, <<>>, MaxCache)
            r == CollectFoldRun(tree)
        IN  /\ it.folds = <<>>
            /\ \A k \in 1..Len(it.yields) :
                   \E l \in LeavesAt(tree, <<>>) :
                       it.yields[k] = [region |-> RegionOf(l.path),
                                       sum |-> gather(l.morton, l.item)]
            /\ tree.tag = "Leaf" =>
                   /\ it.yields = <<[region |-> base, sum |-> r.sum]>>
                   /\ r.sum # NoSum
            /\ tree.tag # "Leaf" =>
                   /\ \A k \in 1..Len(it.yields) : it.yields[k].region # base
                   /\ ~CacheHas(it.cache, base)

\* C11 witness: iter_fold has just run on a tree whose root is a Node over
\* two leaves, and yielded two pairs.
C11_Witness ==
    /\ last.op = "iter_fold"
    /\ last.ret = 2
    /\ tree.tag = "Node"
    /\ Cardinality(LeavesAt(tree, <<>>)) = 2

\* The traversal that is run a second time over the cache a first traversal
\* (depth, explore e1, rng, empty cache) handed back, now with explore e2.
SecondRun(t, depth, e1, e2, rng) ==
    iter_fold_random(t, depth, e2, rng,
                     iter_fold_random(t, depth, e1, rng, <<>>, MaxCache).cache, MaxCache)

\* C12 as stated: in a traversal by iter_fold_random, explore is never
\* invoked on a region whose Sum is in the cache at that moment.
C12_ExploreSkipsCached ==
    \A depth \in Depths, e1 \in Explores, e2 \in Explores, rng \in CallRngs :
        LET it == SecondRun(tree, depth, e1, e2, rng)
        IN  \A k \in 1..Len(it.explores) : ~it.explores[k].cached

\* C12 amended: explore is invoked on every region the traversal pops, cached
\* or not.  The cached Sum of a popped region is what the traversal yields
\* for it, with no gather and no fold for that region, when explore returns
\* false or the region holds a Leaf; when explore returns true on a Node the
\* cached Sum is not used and the children are visited.
C12_CachedAfterExplore ==
    \A depth \in Depths, e1 \in Explores, e2 \in Explores, rng \in CallRngs :
        LET first == iter_fold_random(tree, depth, e1, rng, <<>>, MaxCache)
            it == SecondRun(tree, depth, e1, e2, rng)
            Cached(region) == \E k \in 1..Len(it.explores) :
                                 it.explores[k] = [region |-> region, cached |-> TRUE]
        IN  (~first.hang /\ ~first.panic) =>
            /\ \A k \in 1..Len(it.yields) :
                   \E j \in 1..Len(it.explores) :
                       it.explores[j].region = it.yields[k].region
            /\ \A k \in 1..Len(it.yields) :
                   Cached(it.yields[k].region) =>
                       /\ \E c \in 1..Len(first.cache) :
                              first.cache[c] = [region |-> it.yields[k].region,
                                                sum |-> it.yields[k].sum]
                       /\ \A j \in 1..Len(it.gathers) :
                              it.gathers[j].region # it.yields[k].region
                       /\ \A j \in 1..Len(it.folds) :
                              it.folds[j].region # it.yields[k].region
            /\ \A k \in 1..Len(it.explores) :
                   LET region == it.explores[k].region
                       node == NodeAt(tree, RegionPath(region))
                   IN  (it.explores[k].cached /\ ~it.hang /\ ~it.panic) =>
                           IF region.level < e2 /\ node.tag = "Node"
                           THEN \A j \in 1..Len(it.yields) : it.yields[j].region # region
                           ELSE \E j \in 1..Len(it.yields) : it.yields[j].region = region

\* C12 witness: iter_fold_random has just run, and a second traversal over
\* the cache it hands back pops a region whose Sum is cached and yields it.
C12_Witness ==
    /\ last.op = "iter_fold_random"
    /\ \E depth \in Depths, e1 \in Explores, e2 \in Explores, rng \in CallRngs :
          LET it == SecondRun(tree, depth, e1, e2, rng)
          IN  \E k \in 1..Len(it.explores), j \in 1..Len(it.yields) :
                  /\ it.explores[k].cached
                  /\ it.yields[j].region = it.explores[k].region

\* C13: in every state reached by insert and remove calls every Node has a
\* child that is not None, and so the searches for a non-empty child in
\* iter_rand, sample and fold_rand all end.
C13_SamplingTerminates ==
    /\ \A p \in NodesAt(tree, <<>>) : ~AllNone(Slot(tree, p).children)
    /\ \A depth \in Depths, rng \in CallRngs : ~iter_rand(tree, depth, rng).hang
    /\ \A depth \in Depths, explore \in Explores, rng \in CallRngs :
          ~iter_fold_random(tree, depth, explore, rng, <<>>, MaxCache).hang

\* C14: on a tree built by insert calls, iter_rand(depth, rng) yields at most
\* 8^depth pairs, exactly one when depth is 0 and the tree is not empty, and
\* the pairs are pairwise distinct leaves stored in the tree.
C14_IterRandBound ==
    nremoves = 0 =>
        \A depth \in Depths, rng \in CallRngs :
            LET r == iter_rand(tree, depth, rng)
            IN  /\ ~r.hang
                /\ Len(r.yields) <= 8 ^ depth
                /\ (depth = 0 /\ ~is_empty(count)) => Len(r.yields) = 1
                /\ \A k \in 1..Len(r.yields) : Stored(tree, r.yields[k][1], r.yields[k][2])
                /\ \A j, k \in 1..Len(r.yields) : j # k => r.yields[j] # r.yields[k]

\* The first leaf under `node` in child-index order (<<>> when there is none).
RECURSIVE FirstLeaf(_)
RECURSIVE FirstLeafFrom(_, _)
FirstLeaf(node) ==
    CASE node.tag = "Leaf" -> <<node.morton, node.item>>
      [] node.tag = "Node" -> FirstLeafFrom(node.children, 0)
      [] OTHER -> <<>>

FirstLeafFrom(children, i) ==
    IF i > 7 THEN <<>>
    ELSE IF FirstLeaf(children[i]) # <<>> THEN FirstLeaf(children[i])
    ELSE FirstLeafFrom(children, i + 1)

\* C15: in every state reached by insert and remove calls,
\* iter_explore_simple never fails, and what it yields is: for every Leaf it
\* visits, the leaf with its region; for every Node it visits on which
\* explore returns false, the region with the first leaf under the Node in
\* child-index order.
C15_ExploreSimple ==
    \A explore \in Explores :
        LET r == iter_explore_simple(tree, explore)
        IN  /\ ~r.panic
            /\ \A k \in 1..Len(r.yields) :
                   LET region == r.yields[k][1]
                       node == NodeAt(tree, RegionPath(region))
                   IN  /\ node.tag \in {"Leaf", "Node"}
                       /\ node.tag = "Node" => ~(region.level < explore)
                       /\ FirstLeaf(node) = <<r.yields[k][2], r.yields[k][3]>>

\* Path p comes before path q in depth-first, ascending child index order.
LexLess(p, q) ==
    \E k \in 1..Len(p) :
        /\ k <= Len(q)
        /\ p[k] < q[k]
        /\ \A j \in 1..(k - 1) : p[j] = q[j]

\* The leaves of set S (with their paths) in depth-first, ascending child
\* index order.
RECURSIVE InOrder(_)
InOrder(S) ==
    IF S = {} THEN <<>>
    ELSE LET m == CHOOSE x \in S : \A y \in S \ {x} : LexLess(x.path, y.path)
         IN  <<m>> \o InOrder(S \ {m})

C17_RootAlwaysPresent == base \in DOMAIN internals

\* C17 amended: internals contains the root region exactly as long as at
\* most one key is stored in leaves; the insert of a second key removes the
\* root entry, and the root then stays absent (an absent region is an
\* internal node).
C17_RootWhileOneLeaf ==
    (base \in DOMAIN internals) <=> (Cardinality(DOMAIN leaves) <= 1)

\* C17 witness: two keys have been inserted and the root region is gone.
C17_Witness ==
    /\ last.op = "linear_insert"
    /\ Cardinality(DOMAIN leaves) = 2
    /\ base \notin DOMAIN internals

\* The regions of morton_levels(m), as a set.
Ancestors(m) == {morton_levels(m)[k] : k \in 1..Len(morton_levels(m))}

\* C18: after any sequence of inserts, for every key in leaves exactly one
\* ancestor region of the key maps to it in internals, and every non-null
\* value in internals is a key in leaves.
C18_InternalsConsistent ==
    /\ ~panicked
    /\ \A m \in DOMAIN leaves :
           Cardinality({r \in Ancestors(m) : r \in DOMAIN internals /\ internals[r] = m}) = 1
    /\ \A r \in DOMAIN internals : ~is_null(internals[r]) => internals[r] \in DOMAIN leaves

\* C18 witness: three keys are stored, one of them below a region of level 2.
C18_Witness ==
    /\ last.op = "linear_insert"
    /\ Cardinality(DOMAIN leaves) = 3
    /\ \E r \in DOMAIN internals : r.level = 2 /\ ~is_null(internals[r])

\* C19: collect_fold calls gather exactly once for each key in leaves; with
\* the counting folder the root region's Sum is the number of keys when
\* there is one, and the map is empty when there is none.
C19_LinearCountingFold ==
    LET r == linear_collect_fold(leaves, internals).run
        n == Cardinality(DOMAIN leaves)
    IN  /\ ~r.panic
        /\ Len(r.gathers) = n
        /\ \A m \in DOMAIN leaves :
               Cardinality({k \in 1..Len(r.gathers) : r.gathers[k].morton = m}) = 1
        /\ n >= 1 => \E e \in r.map : e.region = base /\ e.sum = n
        /\ n = 0 => r.map = {}

\* C19 witness: collect_fold has just run on three stored keys and returned
\* 3 for the root region.
C19_Witness ==
    /\ last.op = "linear_collect_fold"
    /\ last.ret = 3
    /\ Cardinality(DOMAIN leaves) = 3

\* C20: insert(m, v) of a key that is already in leaves replaces the stored
\* value with v and leaves internals unchanged.
C20_InsertPresentKey ==
    [][(last'.op = "linear_insert" /\ ninserts' = ninserts + 1
           /\ last'.morton \in DOMAIN leaves)
          => /\ leaves' = MapInsert(leaves, last'.morton, last'.item)
             /\ linear_get(leaves', last'.morton) = last'.item
             /\ DOMAIN leaves' = DOMAIN leaves
             /\ internals' = internals]_vars

\* C20 witness: two inserts have left one key, so the second insert was on
\* the key the first one stored.
C20_Witness ==
    /\ last.op = "linear_insert"
    /\ ninserts = 2
    /\ Cardinality(DOMAIN leaves) = 1
    /\ linear_get(leaves, last.morton) = last.item

\* C21: after any sequence of inserts, get(m) returns the value of the
\* latest insert with key m, and None for a key never inserted; get looks
\* the key up in leaves and nowhere else.
C21_LinearGet ==
    /\ ~panicked
    /\ \A m \in Keys : linear_get(leaves, m) = inserted[m]
    /\ \A m \in Keys : linear_get(leaves, m) # NoItem <=> m \in DOMAIN leaves

\* C21 witness: get has just returned the payload of a key, after an insert
\* that overwrote a key stored before.
C21_Witness ==
    /\ last.op = "linear_get"
    /\ last.ret \in Items
    /\ last.ret = inserted[last.morton]
    /\ ninserts > Cardinality(DOMAIN leaves)
    /\ Cardinality(DOMAIN leaves) >= 2

\* C22: invalidate_region_cache(m, cache) removes from the cache the root
\* region and every region of morton_levels(m), and leaves every other
\* entry of the cache as it was.
C22_Invalidate ==
    last.op = "invalidate_region_cache"
        => LET before == last.item
               gone == {base} \cup
                       {morton_levels(last.morton)[k] : k \in 1..Len(morton_levels(last.morton))}
           IN  /\ \A k \in 1..Len(region_cache) : region_cache[k].region \notin gone
               /\ region_cache = SelectSeq(before, LAMBDA e : e.region \notin gone)

C22_Witness ==
    /\ last.op = "invalidate_region_cache"
    /\ Len(last.item) = MaxRegionCache
    /\ Len(region_cache) = 1
    /\ \E k \in 1..Len(last.item) :
           /\ last.item[k].region.level > 0
           /\ ~CacheHas(region_cache, last.item[k].region)

\* C23: decode(encode(x, y, z)) is (x, y, z) for coordinates that fit in
\* dim_bits bits, for u64 and for u128 (whose code is two u64 codes joined
\* with a shift of 63 bits).
C23_DecodeEncode ==
    last.op = "encode" => decode(morton_type, code) = last.item

C23_Witness ==
    /\ last.op = "encode"
    /\ morton_type = "u128"
    /\ last.item = <<(2 ^ DimBitsOf("u128")) - 1, 1, 2 ^ dim_bits>>
    /\ decode(morton_type, code) = last.item

\* C24: encode(decode(m)) is m for every key m whose unused top bits are
\* zero, for u64 and for u128.
C24_EncodeDecode ==
    (last.op = "decode" /\ last.morton <= UsedBitsOf(morton_type))
        => encode(morton_type, last.ret) = last.morton

C24_Witness ==
    /\ last.op = "decode"
    /\ morton_type = "u128"
    /\ last.morton = BitOr(Shl(5 * bits, 3 * dim_bits, BITS("u128")), 2 * bits)
    /\ encode(morton_type, last.ret) = last.morton

\* C25: level L of encode(x, y, z) is bx + 2 * by + 4 * bz, where bx, by, bz
\* are bit (dim_bits - 1 - L) of x, y, z; the unused top bits of the code
\* are zero.
C25_EncodeLevels ==
    last.op = "encode"
        => LET D == DimBitsOf(morton_type)
               b(c, L) == (c \div (2 ^ (D - 1 - L))) % 2
           IN  /\ \A L \in 0..(D - 1) :
                      get_level_of(morton_type, code, L)
                          = b(last.item[1], L) + 2 * b(last.item[2], L) + 4 * b(last.item[3], L)
               /\ morton_type = "u64"
                      => \A L \in 0..(D - 1) : get_level(code, L) = get_level_of("u64", code, L)
               /\ code <= UsedBitsOf(morton_type)

C25_Witness ==
    /\ last.op = "encode"
    /\ morton_type = "u64"
    /\ last.item = <<1, 2, 3>>
    /\ get_level(code, 0) = 6
    /\ get_level(code, dim_bits - 1) = 5

\* C26: for every key and every level L < dim_bits, after set_level(L, v)
\* get_level(L) is v and every other level and the unused bits are as
\* before; set_level with L >= dim_bits panics and leaves the key alone.
C26_SetLevel ==
    last.op = "set_level"
        => LET D == DimBitsOf(morton_type)
               L == last.item[1]
               v == last.item[2]
           IN  IF L < D
               THEN /\ ~panicked
                    /\ get_level_of(morton_type, code, L) = v
                    /\ \A K \in (0..(D - 1)) \ {L} :
                           get_level_of(morton_type, code, K)
                               = get_level_of(morton_type, last.morton, K)
                    /\ Shr(code, 3 * D) = Shr(last.morton, 3 * D)
               ELSE panicked /\ code = last.morton

\* C27: the low CACHE_LOCALITY_BITS bits of the hash of a key are the low
\* bits of the key, and keys that agree above those bits have hashes that
\* agree above those bits, for write_u64 and write_u128.
C27_HashLocality ==
    last.op = "hash"
        => /\ last.ret % (2 ^ CACHE_LOCALITY_BITS) = last.morton % (2 ^ CACHE_LOCALITY_BITS)
           /\ \A low \in 0..((2 ^ CACHE_LOCALITY_BITS) - 1) :
                  LET k == (last.morton - (last.morton % (2 ^ CACHE_LOCALITY_BITS))) + low
                  IN  /\ Shr(write(morton_type, k), CACHE_LOCALITY_BITS)
                             = Shr(last.ret, CACHE_LOCALITY_BITS)
                      /\ write(morton_type, k) % (2 ^ CACHE_LOCALITY_BITS) = low

C27_Witness ==
    /\ last.op = "hash"
    /\ last.morton % (2 ^ CACHE_LOCALITY_BITS) = 5
    /\ last.ret % (2 ^ CACHE_LOCALITY_BITS) = 5
    /\ Shr(last.ret, CACHE_LOCALITY_BITS) # Shr(last.morton, CACHE_LOCALITY_BITS)
    /\ Shr(last.ret, CACHE_LOCALITY_BITS) # 0

\* C28: in every state reached by insert and remove calls no Node lies at
\* depth dim_bits, so no call has hit unreachable!(), no descent of get ends
\* on a Node, and collect_fold does not panic.
C28_DescentBounded ==
    /\ ~panicked
    /\ \A p \in NodesAt(tree, <<>>) : Len(p) < dim_bits
    /\ \A m \in Keys : get(tree, m) # Unreachable
    /\ ~CollectFoldRun(tree).run.panic

\* C29: when the descent of insert(morton, item) ends on a Leaf with another
\* key (the root included), both leaves are stored in the tree when insert
\* returns, and count has grown by exactly 1.
C29_SplitPlacesBoth ==
    [][(last'.op = "insert" /\ ninserts' = ninserts + 1)
          => LET dest == Slot(tree, Descend(tree, <<>>, 0, 0, last'.morton).path)
             IN  (dest.tag = "Leaf" /\ dest.morton # last'.morton)
                 => /\ ~panicked'
                    /\ Stored(tree', last'.morton, last'.item)
                    /\ Stored(tree', dest.morton, dest.item)
                    /\ count' = count + 1]_vars

\* C30: every Leaf stored at depth d >= 1 sits in the child slot its own
\* digits select: the child index taken at depth k on its path is
\* get_level(k) of its key, for every k < d.
C30_LeafOnOwnPath ==
    \A l \in LeavesAt(tree, <<>>) :
        \A k \in 1..Len(l.path) : l.path[k] = get_level(l.morton, k - 1)

\* The index in morton_levels(morton) of the first region that is in the
\* map (0 when none is): the region the walk of insert stops at.
MetIndex(map, morton) ==
    LET ks == {k \in 1..Len(morton_levels(morton)) : morton_levels(morton)[k] \in DOMAIN map}
    IN  IF ks = {} THEN 0 ELSE CHOOSE k \in ks : \A j \in ks : k <= j

\* The new key meets a region holding a leaf marker: the walk of insert
\* stops at a region whose value is not null.
MeetsLeaf(map, morton) ==
    /\ MetIndex(map, morton) # 0
    /\ ~is_null(map[morton_levels(morton)[MetIndex(map, morton)]])

\* The first level from `level` on at which the two keys' digits differ
\* (dim_bits when there is none).
RECURSIVE FirstDiff(_, _, _)
FirstDiff(a, b, level) ==
    IF level >= dim_bits \/ get_level(a, level) # get_level(b, level) THEN level
    ELSE FirstDiff(a, b, level + 1)

\* C31: LinearOctree::insert never reaches its unreachable!(): whenever a
\* new valid key meets a region holding a leaf marker `existing`, existing
\* is another key and the digits of the two differ at a level between the
\* level of the region and dim_bits - 1.
C31_LinearNoUnreachable ==
    /\ ~panicked
    /\ \A m \in Keys \ DOMAIN leaves :
           /\ ~linear_insert(leaves, internals, m, 1).panic
           /\ MeetsLeaf(internals, m) =>
                  LET region == morton_levels(m)[MetIndex(internals, m)]
                      existing == internals[region]
                  IN  /\ existing # m
                      /\ existing \in DOMAIN leaves
                      /\ \E level \in region.level..(dim_bits - 1) :
                             get_level(existing, level) # get_level(m, level)

\* C31 witness: every key of Keys has been inserted, one insert each, so
\* each but the first met a leaf marker or a null on its way.
C31_Witness ==
    /\ last.op = "linear_insert"
    /\ ~panicked
    /\ ninserts = Cardinality(Keys)
    /\ DOMAIN leaves = Keys
    /\ \A m \in Keys : \E r \in DOMAIN internals : r.level = dim_bits /\ internals[r] = m

\* C32: after an insert that splits a region holding a leaf marker, the 8
\* children of the deepest region entered are in internals (one with the
\* old key, one with the new key, six with null), every region descended
\* through, the one that held the old leaf included, is absent, and at every
\* descended level the 7 siblings not entered are present with null.
C32_SplitShape ==
    [][(last'.op = "linear_insert" /\ ninserts' = ninserts + 1
           /\ last'.morton \notin DOMAIN leaves
           /\ MeetsLeaf(internals, last'.morton))
          => LET m == last'.morton
                 levels == morton_levels(m)
                 first == levels[MetIndex(internals, m)]
                 old == internals[first]
                 d == FirstDiff(old, m, first.level)
             IN  /\ d < dim_bits
                 /\ \A level \in first.level..d : levels[level + 1] \notin DOMAIN internals'
                 /\ \A i \in 0..7 :
                        /\ enter(levels[d + 1], i) \in DOMAIN internals'
                        /\ internals'[enter(levels[d + 1], i)]
                               = IF i = get_level(old, d) THEN old
                                 ELSE IF i = get_level(m, d) THEN m
                                 ELSE null
                 /\ \A level \in first.level..(d - 1) :
                        \A i \in (0..7) \ {get_level(m, level)} :
                            /\ enter(levels[level + 1], i) \in DOMAIN internals'
                            /\ internals'[enter(levels[level + 1], i)] = null]_vars

\* C32 witness: the second key has just been inserted, the split left the
\* root region and a region of level 1 absent, the new key in a region of
\* level 2 and null in a region of level 1.
C32_Witness ==
    /\ last.op = "linear_insert"
    /\ Cardinality(DOMAIN leaves) = 2
    /\ base \notin DOMAIN internals
    /\ morton_levels(last.morton)[2] \notin DOMAIN internals
    /\ morton_levels(last.morton)[3] \in DOMAIN internals
    /\ internals[morton_levels(last.morton)[3]] = last.morton
    /\ \E i \in 0..7 : /\ enter(base, i) \in DOMAIN internals
                       /\ is_null(internals[enter(base, i)])

\* C33: remove(m) of a stored key m changes only the slot of that leaf,
\* which becomes None: every other key is returned by get with the value it
\* had, iter() yields what it yielded before with m deleted, and the Nodes
\* of the tree are the same as before (none pruned, none created).
C33_RemoveFrame ==
    [][(last'.op = "remove" /\ KeyStored(tree, last'.morton))
          => LET m == last'.morton
             IN  /\ LeavesAt(tree', <<>>) = {l \in LeavesAt(tree, <<>>) : l.morton # m}
                 /\ \A k \in Keys \ {m} : get(tree', k) = get(tree, k)
                 /\ iter(tree') = SelectSeq(iter(tree), LAMBDA e : e[1] # m)
                 /\ NodesAt(tree', <<>>) = NodesAt(tree, <<>>)]_vars

\* C34: every (region, Sum) pair a traversal by iter_fold / iter_fold_random
\* yields is stored in the cache under its region (as long as the cache has
\* not reached its capacity), and a second traversal of the same tree with
\* the same explore predicate and the cache the first one handed back yields
\* the same pairs and calls neither gather nor fold.
C34_YieldsCached ==
    \A depth \in Depths, explore \in Explores, rng \in CallRngs, rng2 \in CallRngs :
        LET first == iter_fold_random(tree, depth, explore, rng, <<>>, MaxCache)
            second == iter_fold_random(tree, depth, explore, rng2, first.cache, MaxCache)
        IN  (~first.hang /\ ~first.panic /\ Len(first.cache) < MaxCache) =>
                /\ \A k \in 1..Len(first.yields) :
                       \E c \in 1..Len(first.cache) : first.cache[c] = first.yields[k]
                /\ second.yields = first.yields
                /\ second.gathers = <<>>
                /\ second.folds = <<>>
                /\ ~second.hang /\ ~second.panic

\* C34 witness: iter_fold_random has just run on a tree with a Node at its
\* root; one of its traversals folded the root, and the second traversal
\* over its cache yields the root pair again without gather or fold.
C34_Witness ==
    /\ last.op = "iter_fold_random"
    /\ tree.tag = "Node"
    /\ \E depth \in Depths, rng \in CallRngs :
          LET first == iter_fold_random(tree, depth, 0, rng, <<>>, MaxCache)
              second == iter_fold_random(tree, depth, 0, rng, first.cache, MaxCache)
          IN  /\ ~first.hang /\ ~first.panic
              /\ first.folds # <<>>
              /\ Len(first.yields) = 1
              /\ second.yields = first.yields
              /\ second.folds = <<>> /\ second.gathers = <<>>

\* C35: when every insert(m, _) and remove(m) is followed by
\* invalidate_region_cache(m, cache), a traversal by iter_fold_random with
\* depth dim_bits over the kept cache yields exactly the pairs a traversal
\* over a fresh, empty cache yields, whatever the explore predicate.
C35_CacheCoherent ==
    ~panicked =>
        \A explore \in Explores, rng \in CallRngs :
            LET kept == iter_fold_random(tree, dim_bits, explore, rng, region_cache, MaxCache)
                fresh == iter_fold_random(tree, dim_bits, explore, rng, <<>>, MaxCache)
            IN  /\ kept.yields = fresh.yields
                /\ (kept.hang \/ kept.panic) = (fresh.hang \/ fresh.panic)

\* C35 witness: a traversal has just run over a cache that held Sums of an
\* earlier state of the tree, after two inserts and a remove, and the cache
\* now holds the Sum of a region below the root.
C35_Witness ==
    /\ last.op = "iter_fold_random"
    /\ last.ret >= 1
    /\ ninserts = 2 /\ nremoves = 1
    /\ \E k \in 1..Len(region_cache) : region_cache[k].region.level >= 1
    /\ \E k \in 1..Len(region_cache) : region_cache[k].region = base

\* C36: on a non-empty tree built by inserts, iter_fold_random with an
\* explore predicate that is always false, depth dim_bits and an empty cache
\* yields exactly one pair, the root region with the Sum collect_fold stores
\* for the root region; the rng is never asked for a value.
C36_FoldRandomRoot ==
    (nremoves = 0 /\ ~is_empty(count) /\ ~panicked) =>
        \A rng \in Rngs :
            LET it == iter_fold_random(tree, dim_bits, 0, rng, <<>>, MaxCache)
                r == CollectFoldRun(tree)
            IN  /\ ~it.hang /\ ~it.panic
                /\ ~r.run.panic
                /\ it.yields = <<[region |-> base, sum |-> r.sum]>>
                /\ it.rngix = 0

\* C37: one complete traversal by iter_fold_random with depth dim_bits and
\* an empty cache yields every region at most once, no yielded region is an
\* ancestor of another, and every stored leaf lies under exactly one yielded
\* region; when explore is always true the pairs yielded are one (region of
\* the slot, gather(m, payload)) per stored leaf.
C37_YieldsPartition ==
    ~panicked =>
        \A explore \in Explores, rng \in CallRngs :
            LET it == iter_fold_random(tree, dim_bits, explore, rng, <<>>, MaxCache)
                Under(l, region) ==
                    /\ region.level <= Len(l.path)
                    /\ RegionOf(SubSeq(l.path, 1, region.level)) = region
            IN  /\ ~it.hang /\ ~it.panic
                /\ \A j, k \in 1..Len(it.yields) :
                       j # k => /\ it.yields[j].region # it.yields[k].region
                                /\ ~(/\ it.yields[j].region.level < it.yields[k].region.level
                                     /\ RegionOf(SubSeq(RegionPath(it.yields[k].region), 1,
                                                        it.yields[j].region.level))
                                            = it.yields[j].region)
                /\ \A l \in LeavesAt(tree, <<>>) :
                       Cardinality({k \in 1..Len(it.yields) : Under(l, it.yields[k].region)}) = 1
                /\ explore > dim_bits =>
                       /\ Len(it.yields) = Cardinality(LeavesAt(tree, <<>>))
                       /\ \A l \in LeavesAt(tree, <<>>) :
                              \E k \in 1..Len(it.yields) :
                                  it.yields[k] = [region |-> RegionOf(l.path),
                                                  sum |-> gather(l.morton, l.item)]

\* The keys of S in ascending order.
RECURSIVE Ascending(_)
Ascending(S) ==
    IF S = {} THEN <<>>
    ELSE LET m == CHOOSE x \in S : \A y \in S : x <= y
         IN  <<m>> \o Ascending(S \ {m})

\* The tree (with count and panic) after insert(ms[k], payload[ms[k]]) for
\* k = 1, 2, ... on the tree t with count c.
RECURSIVE InsertAll(_, _, _, _)
InsertAll(t, c, ms, payload) ==
    IF ms = <<>> THEN [tree |-> t, count |-> c, panic |-> FALSE]
    ELSE LET r == insert(t, c, Head(ms), payload[Head(ms)])
         IN  IF r.panic THEN r ELSE InsertAll(r.tree, r.count, Tail(ms), payload)

\* C38: inserting a set of distinct valid keys into an empty tree gives the
\* same tree in whatever order the keys are inserted (the tree reached is
\* the tree the ascending order gives), hence the same iter() sequence and
\* the same collect_fold map.
C38_OrderIndependent ==
    (DistinctInsertsOnly /\ ~panicked) =>
        LET asc == InsertAll(None, 0, Ascending(InsertedKeys), inserted)
        IN  /\ ~asc.panic
            /\ tree = asc.tree
            /\ iter(tree) = iter(asc.tree)
            /\ CollectFoldRun(tree).run.map = CollectFoldRun(asc.tree).run.map

\* C39: after the same inserts of distinct valid keys into an empty
\* PointerOctree and an empty LinearOctree, collect_fold with the same
\* folder returns the same map from both: the same regions, with the same
\* Sum for each region.
C39_PointerLinearSameMap ==
    (DistinctInsertsOnly /\ ~panicked) =>
        LET p == CollectFoldRun(tree).run
            l == linear_collect_fold(leaves, internals).run
        IN  /\ ~p.panic /\ ~l.panic
            /\ p.map = l.map

====
